---- MODULE Spec2Model ----
(***************************************************************************)
(* Verification model of bkernel: the priority-bitmap reactor (breactor),  *)
(* its mutex and promise primitives, the SPSC ring buffer (dev) and the    *)
(* small-block heap (smalloc).                                             *)
(*                                                                         *)
(* A 32-bit mask word is modelled as the set of its set bit positions      *)
(* (a subset of 0..31): OR is union, AND-NOT is set difference, 0 is {}.   *)
(***************************************************************************)
EXTENDS Integers, Sequences, FiniteSets, TLC

\* ------------------------------------------------------------------------
\* Bounds of the model
\* ------------------------------------------------------------------------

\* Task ids 0..MaxId are used by the modelled application.
MaxId == 2
\* Number of add_task calls whose outcome is recorded.
MaxAdd == 4

\* ------------------------------------------------------------------------
\* Program constants
\* ------------------------------------------------------------------------

\* Number of task slots of the reactor (tasks: [...; 32]).
NSlots == 32

Slots == 0..(NSlots - 1)
TaskIds == 0..MaxId

None == "None"
\* The futures handed to add_task.
Futures == {"f", "g"}

VARIABLES
    \* ---- Reactor (breactor/src/lib.rs) ----
    ready_mask,         \* Reactor.ready_mask
    current_task_mask,  \* Reactor.current_task_mask
    tasks,              \* Reactor.tasks: slot -> None | "Some"
    event,              \* the core's event register, set by SEV
    pc,                 \* position of the main thread
    task_id,            \* run(): local task_id
    mask,               \* select_next_task(): local mask
    \* ---- the futures driven by the reactor ----
    fut,                \* state of the future registered under each id
    tpc,                \* position inside the running poll
    oredSince,          \* history: bits ORed into ready_mask since cleared
    pollJustified,      \* history: the selected bit had been ORed
    \* ---- Mutex (breactor/src/mutex.rs) ----
    wait_task_mask,     \* Mutex.wait_task_mask
    owner,              \* Mutex.owner
    ltask,              \* LockFuture::poll: local task
    rel_tasks,          \* Mutex::release: local tasks (task context)
    isr_tasks,          \* Mutex::release: local tasks (interrupt context)
    ipc,                \* position of the interrupt handler dropping a lock
    tokens,             \* history: tasks holding a live MutexLock
    isr_token,          \* history: a MutexLock is held by a handler
    polledSince,        \* history: tasks registered since the last drain
    drained,            \* history: polledSince at the last drain
    blocked,            \* history: tasks whose lock poll returned Pending
    rel,                \* history: what followed the last release
    \* ---- Promise (breactor/src/promise.rs) ----
    p_task,             \* Promise.task
    p_result,           \* Promise.result: None | <<"Ok", v>> | <<"Err", v>>
    ptask,              \* Promise::poll: local task
    rpc,                \* position of the producer inside resolve
    r_task,             \* Promise::resolve: local task
    armed,              \* history: the producer has yet to call resolve
    sent,               \* history: the value passed to resolve
    got,                \* history: what poll returned since the claim
    debug_assertions,   \* the build keeps debug_assert!
    r_legal,            \* history: the resolve under way followed a claim
    \* ---- CircularBuffer (dev/circular_buffer.rs) ----
    array,              \* CircularBuffer.array
    head,               \* CircularBuffer.head
    tail,               \* CircularBuffer.tail
    ppc,                \* position of the producer inside push
    current_tail,       \* push: local current_tail
    next_tail,          \* push: local next_tail
    item,               \* push: argument item
    cpc,                \* position of the consumer inside pop
    current_head,       \* pop: local current_head
    taken,              \* pop: local item
    pushed,             \* history: values of the pushes that returned true
    popped,             \* history: values of the pops that returned Some
    refused,            \* history: a push has returned false
    \* ---- Smalloc (smalloc/lib.rs) ----
    hsize,              \* Smalloc.size (Smalloc.start is offset 0)
    hhead,              \* the word at start: head of the free list
    hmem,               \* block headers written so far, by offset
    live,               \* history: pointers returned by alloc, not yet freed
    inited,             \* init() has run
    ops,                \* history: number of alloc and free calls made
    held,               \* history: the invariants held before the last call
    last_op,            \* history: the last call of alloc or free
    last_copy,          \* history: the copy made by the last reallocate
    \* ---- callers of Reactor::add_task ----
    add_calls,          \* history: number of add_task calls recorded
    add_id,             \* history: task_id of the last recorded call
    add_f,              \* history: f of the last recorded call
    add_ret,            \* history: what the last recorded call returned
    \* ---- Usart (dev/usart.rs) ----
    writer_task_mask,   \* Usart.writer_task_mask
    reader_task_mask,   \* Usart.reader_task_mask
    writer_buffer,      \* Usart.writer_buffer: the bytes held, oldest first
    reader_buffer,      \* Usart.reader_buffer: the bytes held, oldest first
    txe,                \* the TXE interrupt is enabled
    rd_item,            \* poll_next: what try_pop_reader returned
    rd_owner,           \* history: mask of the task that reads the channel
    rd_parked,          \* history: poll_next returned Pending to this mask
    rd_since,           \* history: bytes pushed since poll_next's store
    rd_was_empty,       \* history: reader_buffer was empty at that store
    wr_owner,           \* history: mask of the task that writes the channel
    wr_parked,          \* history: poll_ready/poll_flush returned Pending
    wr_early,           \* history: a byte was popped since the poll's store
    \* ---- StartSendAllString (breactor/src/start_send_all_string.rs) ----
    ss_string,          \* StartSendAllString.string, as bytes
    ss_cur,             \* StartSendAllString.cur
    ss_sink,            \* StartSendAllString.sink is Some
    ss_pc,              \* position of the thread inside poll
    ss_ret,             \* what the call of poll returned, None during it
    sink_got,           \* history: the items handed to the sink's start_send
    ss_task,            \* id of the task that polls the future
    dr_log,             \* history: the bytes the TXE handler put to the transmitter
    \* ---- the Stream a future reads ----
    src_items,          \* the items the stream yields before it ends
    src_pos,            \* how many of them poll_next has handed out
    \* ---- StartSendAll (breactor/src/start_send_all.rs) ----
    sa_sink,            \* StartSendAll.sink is Some
    sa_stream,          \* StartSendAll.stream is Some
    buffered,           \* StartSendAll.buffered: <<>> or <<item>>
    sa_item,            \* poll / try_start_send: local item
    sa_pc,              \* position of the thread inside poll
    sa_ret,             \* what the call of poll returned, None during it
    \* ---- TakeUntil (dev/esp8266.rs) ----
    buffer,             \* TakeUntil.buffer
    tu_stream,          \* TakeUntil.stream is Some
    matches,            \* TakeUntil.matches
    tu_cur,             \* TakeUntil.cur
    tu_pc,              \* position of the thread inside poll
    tu_ret,             \* what the call of poll returned, tag None during it
    \* ---- Scheduler (bscheduler/lib.rs) ----
    sch_tasks,          \* Scheduler.tasks: head of the list
    task_priority,      \* Task.priority of each task object
    task_next,          \* Task.next of each task object
    sch_pc,             \* position of the thread: idle, in schedule's loop, in a task
    sch_cur,            \* schedule: the task popped last
    sch_calls,          \* history: number of schedule() calls made
    added,              \* history: the tasks given to add_task, in order
    executed,           \* history: the tasks called, in order
    dropped             \* history: an add_task has replaced a non-empty list

rvars == <<ready_mask, current_task_mask, tasks, event, pc, task_id, mask,
           fut, tpc, oredSince, pollJustified>>
mvars == <<wait_task_mask, owner, ltask, rel_tasks, isr_tasks, ipc, tokens,
           isr_token, polledSince, drained, blocked, rel>>
pvars == <<p_task, p_result, ptask, rpc, r_task, armed, sent, got,
           debug_assertions, r_legal>>
cvars == <<array, head, tail, ppc, current_tail, next_tail, item, cpc,
           current_head, taken, pushed, popped, refused>>
hvars == <<hsize, hhead, hmem, live, inited, ops, held, last_op, last_copy>>
avars == <<add_calls, add_id, add_f, add_ret>>
uvars == <<writer_task_mask, reader_task_mask, writer_buffer, reader_buffer,
           txe, rd_item, rd_owner, rd_parked, rd_since, rd_was_empty,
           wr_owner, wr_parked, wr_early>>
rvars_but_tpc == <<ready_mask, current_task_mask, tasks, event, pc, task_id,
                   mask, fut, oredSince, pollJustified>>
ssvars == <<ss_string, ss_cur, ss_sink, ss_pc, ss_ret, sink_got, ss_task,
            dr_log>>
stvars == <<src_items, src_pos>>
savars == <<sa_sink, sa_stream, buffered, sa_item, sa_pc, sa_ret>>
tuvars == <<buffer, tu_stream, matches, tu_cur, tu_pc, tu_ret>>
fvars == <<ssvars, stvars, savars, tuvars>>
svars == <<sch_tasks, task_priority, task_next, sch_pc, sch_cur, sch_calls,
           added, executed, dropped>>
vars == <<rvars, mvars, pvars, cvars, hvars, avars, uvars, fvars, svars>>

\* ------------------------------------------------------------------------
\* Helpers on mask words
\* ------------------------------------------------------------------------

\* The largest element of a non-empty set of naturals.
MaxOf(S) == CHOOSE x \in S : \A y \in S : y <= x

\* TaskId::unsafe_new(id): (1 as u32) << id.
unsafe_new(id) == {id}

\* u32::leading_zeros: number of clear bits above the highest set bit,
\* counted from bit 31 downwards; 32 for the zero word.
RECURSIVE LeadingZerosFrom(_, _)
LeadingZerosFrom(m, i) ==
    IF i < 0 THEN 0
    ELSE IF i \in m THEN 0
    ELSE 1 + LeadingZerosFrom(m, i - 1)

\* The zeros are counted above the lowest set bit.
leading_zeros_Lowest(m) ==
    IF m = {} THEN 32 ELSE 31 - (CHOOSE x \in m : \A y \in m : x <= y)

leading_zeros(m) == LeadingZerosFrom(m, 31)

\* The bit is left set.
fetch_and_not_Kept(w, m) == w

\* AtomicU32::fetch_and(!m): the value the word has afterwards.
fetch_and_not(w, m) == w \ m

\* The word is left as it was.
fetch_or_Dropped(w, m) == w

\* AtomicU32::fetch_or(m): the value the word has afterwards.
fetch_or(w, m) == w \cup m

\* The lowest set bit is taken (trailing instead of leading zeros).
select_next_task_Lowest(m) ==
    IF m = {} THEN <<>> ELSE <<CHOOSE x \in m : \A y \in m : x <= y>>

\* Reactor::select_next_task applied to a loaded mask:
\* None (the empty sequence) if zeros == 32, else Some(31 - zeros).
select_next_task(m) ==
    LET zeros == leading_zeros(m)
    IN  IF zeros = 32 THEN <<>> ELSE <<31 - zeros>>

\* History of a release: no release is being followed.
NoRelease == [phase |-> "none", top |-> 0, clean |-> TRUE]

\* ------------------------------------------------------------------------
\* Reactor
\* ------------------------------------------------------------------------

InitReactor ==
    /\ ready_mask = {}
    /\ current_task_mask = {}
    /\ tasks = [s \in Slots |-> None]
    /\ event = FALSE
    /\ pc = "setup"
    /\ task_id = 0
    /\ mask = {}
    /\ fut = [t \in TaskIds |-> "absent"]
    /\ tpc = "body"
    /\ oredSince = {}
    /\ pollJustified = FALSE

\* No interrupt handler is in the middle of its steps: the main thread
\* runs only then (handlers preempt the main thread, never the reverse).
MainRuns == ipc = "idle"

\* The event is a pulse: it reaches a core that waits and is not kept.
set_event_Pulse(ev) == ev

\* stm32f4::__set_event(), the SEV instruction: the event register of the
\* core is set, whatever it held.
set_event(ev) == TRUE

\* The mask is dropped: nothing is ORed into ready_mask.
set_ready_task_mask_Lost(m) == UNCHANGED <<ready_mask, event, oredSince>>

\* Reactor::set_ready_task_mask(m): fetch_or and SEV, nothing for m = 0.
set_ready_task_mask(m) ==
    IF m # {}
    THEN /\ ready_mask' = fetch_or(ready_mask, m)
         /\ event' = set_event(event)
         /\ oredSince' = oredSince \cup m
    ELSE UNCHANGED <<ready_mask, event, oredSince>>

\* The mask is stored over the word instead of being ORed into it.
set_task_ready_Stored(id) ==
    /\ ready_mask' = unsafe_new(id)
    /\ event' = TRUE
    /\ oredSince' = oredSince \cup unsafe_new(id)

\* Reactor::set_task_ready(id): fetch_or and SEV.
set_task_ready(id) ==
    /\ ready_mask' = fetch_or(ready_mask, unsafe_new(id))
    /\ event' = set_event(event)
    /\ oredSince' = oredSince \cup unsafe_new(id)

\* The main thread is inside a task's poll, between two operations.
InBody == pc = "poll" /\ tpc = "body"

\* main() after its add_task calls, before the loop: every id of TaskIds
\* holds a task and has its ready bit set.
InitReactorLoaded ==
    /\ ready_mask = TaskIds
    /\ current_task_mask = {}
    /\ tasks = [s \in Slots |-> IF s \in TaskIds THEN "Some" ELSE None]
    /\ event = TRUE
    /\ pc = "setup"
    /\ task_id = 0
    /\ mask = {}
    /\ fut = [t \in TaskIds |-> "run"]
    /\ tpc = "body"
    /\ oredSince = TaskIds
    /\ pollJustified = FALSE

\* Nobody has called add_task yet.
InitAdd ==
    /\ add_calls = 0
    /\ add_id = 0
    /\ add_f = None
    /\ add_ret = FALSE

\* Reactor::add_task: the test `task_id >= 32`, negated.
InRange(id) == id < NSlots

\* Reactor::add_task(id, f): the value it returns.
add_task_returns(id) ==
    IF ~InRange(id) THEN FALSE
    ELSE IF tasks[id] = None THEN TRUE
    ELSE FALSE

\* Reactor::add_task(id, f), called by main before the loop or by a
\* running task.
add_task(id, f) ==
    /\ MainRuns
    /\ pc = "setup" \/ (InBody /\ fut[task_id] = "run")
    /\ IF ~InRange(id)
       THEN UNCHANGED <<ready_mask, event, oredSince, tasks, fut>>
       ELSE IF tasks[id] = None
            THEN /\ tasks' = [tasks EXCEPT ![id] = f]
                 /\ fut' = [fut EXCEPT ![id] = "run"]
                 /\ set_task_ready(id)
            ELSE UNCHANGED <<ready_mask, event, oredSince, tasks, fut>>
    /\ UNCHANGED <<current_task_mask, pc, task_id, mask, tpc, pollJustified>>
    /\ UNCHANGED mvars
    /\ UNCHANGED <<pvars, cvars, hvars, uvars, fvars, svars>>

AddTask ==
    /\ \E id \in TaskIds \cup {NSlots} : add_task(id, "Some")
    /\ UNCHANGED avars

\* A call of add_task whose arguments and return value are recorded.
AddTaskCall ==
    /\ add_calls < MaxAdd
    /\ \E id \in TaskIds \cup {NSlots}, f \in Futures :
          /\ add_task(id, f)
          /\ add_id' = id
          /\ add_f' = f
          /\ add_ret' = add_task_returns(id)
    /\ add_calls' = add_calls + 1

\* main(): enters `loop { reactor.run(); __wait_for_event(); }`.
StartRun ==
    /\ MainRuns
    /\ pc = "setup"
    /\ pc' = "select"
    /\ UNCHANGED <<ready_mask, current_task_mask, tasks, event, task_id, mask,
                   fut, tpc, oredSince, pollJustified>>
    /\ UNCHANGED mvars
    /\ UNCHANGED <<pvars, cvars, hvars, avars, uvars, fvars, svars>>

\* run(): `while let Some(task_id) = self.select_next_task()`.
\* When nothing is ready run() returns and main reaches the WFE.
Select ==
    /\ MainRuns
    /\ pc = "select"
    /\ mask' = ready_mask
    /\ LET next == select_next_task(ready_mask)
       IN  IF next = <<>>
           THEN /\ pc' = "wfe"
                /\ UNCHANGED task_id
           ELSE /\ pc' = "clear"
                /\ task_id' = next[1]
    /\ rel' = IF rel.phase = "released" /\ ready_mask # {}
                 /\ \A b \in ready_mask : b <= rel.top
              THEN [rel EXCEPT !.phase = "picked"]
              ELSE NoRelease
    /\ UNCHANGED <<ready_mask, current_task_mask, tasks, event, fut,
                   tpc, oredSince, pollJustified>>
    /\ UNCHANGED <<wait_task_mask, owner, ltask, rel_tasks, isr_tasks, ipc,
                   tokens, isr_token, polledSince, drained, blocked>>
    /\ UNCHANGED <<pvars, cvars, hvars, avars, uvars, fvars, svars>>

\* The mask has every bit set.
task_mask_All == Slots

\* run(): let task_mask = TaskId::unsafe_new(task_id).get_mask().
task_mask == unsafe_new(task_id)

\* The word read by select_next_task is stored back without the bit: the
\* load and the store are two operations.
ClearReady_Stored ==
    /\ MainRuns
    /\ pc = "clear"
    /\ ready_mask' = mask \ task_mask
    /\ pollJustified' = (task_id \in oredSince)
    /\ oredSince' = oredSince \ {task_id}
    /\ mask' = {}
    /\ pc' = "publish"
    /\ UNCHANGED <<current_task_mask, tasks, event, task_id, fut, tpc>>
    /\ UNCHANGED mvars
    /\ UNCHANGED <<pvars, cvars, hvars, avars, uvars, fvars, svars>>

\* run(): self.ready_mask.fetch_and(!task_mask).
ClearReady ==
    /\ MainRuns
    /\ pc = "clear"
    /\ ready_mask' = fetch_and_not(ready_mask, task_mask)
    /\ pollJustified' = (task_id \in oredSince)
    /\ oredSince' = oredSince \ {task_id}
    /\ mask' = {}
    /\ pc' = "publish"
    /\ UNCHANGED <<current_task_mask, tasks, event, task_id, fut, tpc>>
    /\ UNCHANGED mvars
    /\ UNCHANGED <<pvars, cvars, hvars, avars, uvars, fvars, svars>>

\* run(): self.current_task_mask.store(task_mask).
Publish ==
    /\ MainRuns
    /\ pc = "publish"
    /\ current_task_mask' = task_mask
    /\ pc' = "dispatch"
    /\ UNCHANGED <<ready_mask, tasks, event, task_id, mask, fut, tpc,
                   oredSince, pollJustified>>
    /\ UNCHANGED mvars
    /\ UNCHANGED <<pvars, cvars, hvars, avars, uvars, fvars, svars>>

\* run(): `match *mtask`: an empty slot continues the loop, a full one
\* has its future polled.
Dispatch ==
    /\ MainRuns
    /\ pc = "dispatch"
    /\ IF tasks[task_id] = None
       THEN /\ pc' = "select"
            /\ UNCHANGED <<tpc, blocked>>
       ELSE /\ pc' = "poll"
            /\ tpc' = "body"
            /\ blocked' = blocked \ {task_id}
    /\ UNCHANGED <<ready_mask, current_task_mask, tasks, event, task_id, mask,
                   fut, oredSince, pollJustified>>
    /\ UNCHANGED <<wait_task_mask, owner, ltask, rel_tasks, isr_tasks, ipc,
                   tokens, isr_token, polledSince, drained, rel>>
    /\ UNCHANGED <<pvars, cvars, hvars, avars, uvars, fvars, svars>>

\* The slot is kept whatever the poll returned.
SlotAfter_Kept(res) == tasks

\* run(): the slot after a poll that returned res. NotReady keeps the
\* slot, anything else empties it.
SlotAfter(res) ==
    IF res = "NotReady" THEN tasks ELSE [tasks EXCEPT ![task_id] = None]

\* The running future returns res from poll without touching a primitive.
Return(res) ==
    /\ MainRuns
    /\ InBody
    /\ \/ fut[task_id] = "run"
       \/ fut[task_id] = "hold" /\ res = "NotReady"
    /\ tasks' = SlotAfter(res)
    /\ fut' = IF res = "NotReady" THEN fut
              ELSE [fut EXCEPT ![task_id] = "done"]
    /\ pc' = "select"
    /\ UNCHANGED <<ready_mask, current_task_mask, event, task_id, mask,
                   tpc, oredSince, pollJustified>>
    /\ UNCHANGED mvars
    /\ UNCHANGED <<pvars, cvars, hvars, avars, uvars, fvars, svars>>

TaskReturn == \E res \in {"NotReady", "Ready", "Err"} : Return(res)

\* main(): __wait_for_event() returns once the event register is set,
\* clearing it; the loop calls run() again.
WaitForEvent ==
    /\ MainRuns
    /\ pc = "wfe"
    /\ event
    /\ event' = FALSE
    /\ pc' = "select"
    /\ UNCHANGED <<ready_mask, current_task_mask, tasks, task_id, mask,
                   fut, tpc, oredSince, pollJustified>>
    /\ UNCHANGED mvars
    /\ UNCHANGED <<pvars, cvars, hvars, avars, uvars, fvars, svars>>

\* The masks interrupt handlers pass to set_ready_task_mask: zero or
\* the mask of one task (a handler waking several tasks is the same as
\* several handlers running back to back).
IsrMasks == {{}} \cup {unsafe_new(t) : t \in TaskIds}

\* An interrupt handler (timer, waker) calls set_ready_task_mask(m).
IsrSetReady ==
    /\ MainRuns
    /\ \E m \in IsrMasks : set_ready_task_mask(m)
    /\ UNCHANGED <<current_task_mask, tasks, pc, task_id, mask, fut,
                   tpc, pollJustified>>
    /\ UNCHANGED mvars
    /\ UNCHANGED <<pvars, cvars, hvars, avars, uvars, fvars, svars>>

\* ------------------------------------------------------------------------
\* Mutex
\* ------------------------------------------------------------------------

\* Mutex::new().
InitMutex ==
    /\ wait_task_mask = {}
    /\ owner = {}
    /\ ltask = {}
    /\ rel_tasks = {}
    /\ isr_tasks = {}
    /\ ipc = "idle"
    /\ tokens = {}
    /\ isr_token = FALSE
    /\ polledSince = {}
    /\ drained = {}
    /\ blocked = {}
    /\ rel = NoRelease

\* LockFuture::poll, first half: read the current task mask and OR it
\* into wait_task_mask. A future that is not holding the lock starts (or
\* resumes) waiting for it.
LockRegister ==
    /\ MainRuns
    /\ InBody
    /\ fut[task_id] \in {"run", "want"}
    /\ ltask' = current_task_mask
    /\ wait_task_mask' = fetch_or(wait_task_mask, current_task_mask)
    /\ polledSince' = polledSince \cup current_task_mask
    /\ fut' = [fut EXCEPT ![task_id] = "want"]
    /\ tpc' = "lk_cas"
    /\ UNCHANGED <<ready_mask, current_task_mask, tasks, event, pc, task_id,
                   mask, oredSince, pollJustified>>
    /\ UNCHANGED <<owner, rel_tasks, isr_tasks, ipc, tokens, isr_token,
                   drained, blocked, rel>>
    /\ UNCHANGED <<pvars, cvars, hvars, avars, uvars, fvars, svars>>

\* AtomicU32::compare_and_swap(0, new): the value owner has afterwards.
compare_and_swap(cur, new) == IF cur = {} THEN new ELSE cur

\* The previous owner is not looked at.
MutexLocked_Unchecked(prev) == TRUE

\* LockFuture::poll: `if prev == 0`, prev being the value the
\* compare-and-swap found in owner.
MutexLocked(prev) == prev = {}

\* The history of the last release after a lock attempt: an attempt made
\* before the run loop selected again means the mutex was contended for
\* out of turn; the attempt of the selected task ends the history.
RelAfterCas ==
    IF rel.phase = "released" THEN [rel EXCEPT !.clean = FALSE]
    ELSE NoRelease

\* LockFuture::poll, second half: compare-and-swap on owner; prev == 0
\* yields the MutexLock, anything else returns Pending to the run loop.
LockCas ==
    /\ MainRuns
    /\ pc = "poll"
    /\ tpc = "lk_cas"
    /\ owner' = compare_and_swap(owner, ltask)
    /\ IF MutexLocked(owner)
       THEN /\ tokens' = tokens \cup {task_id}
            /\ fut' = [fut EXCEPT ![task_id] = "hold"]
            /\ UNCHANGED <<pc, blocked>>
       ELSE /\ pc' = "select"
            /\ blocked' = blocked \cup {task_id}
            /\ UNCHANGED <<tokens, fut>>
    /\ tpc' = "body"
    /\ ltask' = {}
    /\ rel' = RelAfterCas
    /\ UNCHANGED <<ready_mask, current_task_mask, tasks, event, task_id, mask,
                   oredSince, pollJustified>>
    /\ UNCHANGED <<wait_task_mask, rel_tasks, isr_tasks, ipc, isr_token,
                   polledSince, drained>>
    /\ UNCHANGED <<pvars, cvars, hvars, avars, uvars, fvars, svars>>

\* The word is read but not replaced.
swap_Load(cur, new) == cur

\* AtomicU32::swap(new): the value the word has afterwards.
swap(cur, new) == new

\* The store is dropped: the word keeps its value.
store_Kept(cur, new) == cur

\* AtomicU32::store(new): the value the word has afterwards.
store(cur, new) == new

\* The run loop has selected a task and not yet started its poll.
Selected == pc \in {"clear", "publish", "dispatch"}

\* The history started by a release that found tasks blocked on the
\* lock; top is the highest blocked task. A release that lands after the
\* run loop has selected a task and before it polls it is not followed:
\* the next task polled was chosen before the release.
RelStart ==
    IF blocked = {} \/ Selected THEN NoRelease
    ELSE [phase |-> "released", top |-> MaxOf(blocked), clean |-> TRUE]

\* Drop of the MutexLock by the task that holds it; Mutex::release,
\* first statement: owner.store(0).
ReleaseStore ==
    /\ MainRuns
    /\ InBody
    /\ fut[task_id] = "hold"
    /\ owner' = store(owner, {})
    /\ tokens' = tokens \ {task_id}
    /\ fut' = [fut EXCEPT ![task_id] = "run"]
    /\ tpc' = "rl_swap"
    /\ UNCHANGED <<ready_mask, current_task_mask, tasks, event, pc, task_id,
                   mask, oredSince, pollJustified>>
    /\ UNCHANGED <<wait_task_mask, ltask, rel_tasks, isr_tasks, ipc,
                   isr_token, polledSince, drained, blocked, rel>>
    /\ UNCHANGED <<pvars, cvars, hvars, avars, uvars, fvars, svars>>

\* Mutex::release, second statement: tasks = wait_task_mask.swap(0).
ReleaseSwap ==
    /\ MainRuns
    /\ pc = "poll"
    /\ tpc = "rl_swap"
    /\ rel_tasks' = wait_task_mask
    /\ wait_task_mask' = swap(wait_task_mask, {})
    /\ drained' = polledSince
    /\ polledSince' = {}
    /\ rel' = RelStart
    /\ tpc' = "rl_wake"
    /\ UNCHANGED <<ready_mask, current_task_mask, tasks, event, pc, task_id,
                   mask, fut, oredSince, pollJustified>>
    /\ UNCHANGED <<owner, ltask, isr_tasks, ipc, tokens, isr_token, blocked>>
    /\ UNCHANGED <<pvars, cvars, hvars, avars, uvars, fvars, svars>>

\* Mutex::release, third statement: REACTOR.set_ready_task_mask(tasks).
ReleaseWake ==
    /\ MainRuns
    /\ pc = "poll"
    /\ tpc = "rl_wake"
    /\ set_ready_task_mask(rel_tasks)
    /\ rel_tasks' = {}
    /\ drained' = {}
    /\ tpc' = "body"
    /\ UNCHANGED <<current_task_mask, tasks, pc, task_id, mask, fut,
                   pollJustified>>
    /\ UNCHANGED <<wait_task_mask, owner, ltask, isr_tasks, ipc, tokens,
                   isr_token, polledSince, blocked, rel>>
    /\ UNCHANGED <<pvars, cvars, hvars, avars, uvars, fvars, svars>>

\* The holder moves its MutexLock to an interrupt handler (the lock may
\* be released from a different thread of execution).
GiveToken ==
    /\ MainRuns
    /\ InBody
    /\ fut[task_id] = "hold"
    /\ tokens' = tokens \ {task_id}
    /\ isr_token' = TRUE
    /\ fut' = [fut EXCEPT ![task_id] = "run"]
    /\ UNCHANGED <<ready_mask, current_task_mask, tasks, event, pc, task_id,
                   mask, tpc, oredSince, pollJustified>>
    /\ UNCHANGED <<wait_task_mask, owner, ltask, rel_tasks, isr_tasks, ipc,
                   polledSince, drained, blocked, rel>>
    /\ UNCHANGED <<pvars, cvars, hvars, avars, uvars, fvars, svars>>

\* Drop of the MutexLock inside an interrupt handler: owner.store(0).
IsrReleaseStore ==
    /\ ipc = "idle"
    /\ isr_token
    /\ owner' = store(owner, {})
    /\ isr_token' = FALSE
    /\ ipc' = "swap"
    /\ UNCHANGED rvars
    /\ UNCHANGED <<wait_task_mask, ltask, rel_tasks, isr_tasks, tokens,
                   polledSince, drained, blocked, rel>>
    /\ UNCHANGED <<pvars, cvars, hvars, avars, uvars, fvars, svars>>

\* Interrupt handler: tasks = wait_task_mask.swap(0).
IsrReleaseSwap ==
    /\ ipc = "swap"
    /\ isr_tasks' = wait_task_mask
    /\ wait_task_mask' = swap(wait_task_mask, {})
    /\ drained' = polledSince
    /\ polledSince' = {}
    /\ rel' = RelStart
    /\ ipc' = "wake"
    /\ UNCHANGED rvars
    /\ UNCHANGED <<owner, ltask, rel_tasks, tokens, isr_token, blocked>>
    /\ UNCHANGED <<pvars, cvars, hvars, avars, uvars, fvars, svars>>

\* Interrupt handler: REACTOR.set_ready_task_mask(tasks).
IsrReleaseWake ==
    /\ ipc = "wake"
    /\ set_ready_task_mask(isr_tasks)
    /\ isr_tasks' = {}
    /\ drained' = {}
    /\ ipc' = "idle"
    /\ UNCHANGED <<current_task_mask, tasks, pc, task_id, mask, fut, tpc,
                   pollJustified>>
    /\ UNCHANGED <<wait_task_mask, owner, ltask, rel_tasks, tokens, isr_token,
                   polledSince, blocked, rel>>
    /\ UNCHANGED <<pvars, cvars, hvars, avars, uvars, fvars, svars>>

\* ------------------------------------------------------------------------
\* Promise
\* ------------------------------------------------------------------------

\* Largest payload carried by the values handed to resolve.
MaxVal == 2

\* Result<T, E> values a producer may pass to resolve.
Results == {<<"Ok", v>> : v \in 1..MaxVal} \cup {<<"Err", v>> : v \in 1..MaxVal}

\* Option::None in the result cell; Async::NotReady out of poll.
NoResult == <<"None">>
NotReady == <<"NotReady">>

\* The mask of no task is returned.
get_current_task_mask_Zero == {}

\* Reactor::get_current_task_mask(): the mask the run loop published.
get_current_task_mask == current_task_mask

\* Promise::empty(): task 0, no result; nobody awaits it.
empty ==
    /\ p_task = {}
    /\ p_result = NoResult
    /\ ptask = {}
    /\ rpc = "idle"
    /\ r_task = {}
    /\ armed = FALSE
    /\ sent = NoResult
    /\ got = NoResult
    /\ r_legal = TRUE

\* An empty promise in a build with debug assertions.
InitPromise ==
    /\ empty
    /\ debug_assertions = TRUE

\* The promise is not in use: no task awaits it and no producer holds it.
PromiseFree ==
    /\ \A t \in TaskIds : fut[t] # "await"
    /\ ~armed
    /\ rpc = "idle"

\* `*cell = Promise::new()`: a running task replaces the promise by a
\* fresh one that it owns, hands the producer's end out and awaits it.
PromiseNew ==
    /\ MainRuns
    /\ InBody
    /\ fut[task_id] = "run"
    /\ PromiseFree
    /\ p_task' = get_current_task_mask
    /\ p_result' = NoResult
    /\ armed' = TRUE
    /\ sent' = NoResult
    /\ got' = NoResult
    /\ fut' = [fut EXCEPT ![task_id] = "await"]
    /\ UNCHANGED <<ready_mask, current_task_mask, tasks, event, pc, task_id,
                   mask, tpc, oredSince, pollJustified>>
    /\ UNCHANGED <<ptask, rpc, r_task, debug_assertions, r_legal>>
    /\ UNCHANGED <<mvars, cvars, hvars, avars, uvars, fvars, svars>>

\* Promise::claim(): a running task makes itself the owner of the
\* (empty or consumed) promise, hands the producer's end out and awaits.
PromiseClaim ==
    /\ MainRuns
    /\ InBody
    /\ fut[task_id] = "run"
    /\ PromiseFree
    /\ p_result = NoResult
    /\ p_task' = get_current_task_mask
    /\ armed' = TRUE
    /\ sent' = NoResult
    /\ got' = NoResult
    /\ fut' = [fut EXCEPT ![task_id] = "await"]
    /\ UNCHANGED <<ready_mask, current_task_mask, tasks, event, pc, task_id,
                   mask, tpc, oredSince, pollJustified>>
    /\ UNCHANGED <<p_result, ptask, rpc, r_task, debug_assertions, r_legal>>
    /\ UNCHANGED <<mvars, cvars, hvars, avars, uvars, fvars, svars>>

\* The owner word is never looked at: the promise always counts as resolved.
PromiseResolved_Unchecked(task) == TRUE

\* Promise::poll: `if task == 0`.
PromiseResolved(task) == task = {}

\* Promise::poll, first half: task = self.task.load(Acquire); a non-zero
\* task returns NotReady to the run loop.
PromiseLoad ==
    /\ MainRuns
    /\ InBody
    /\ fut[task_id] = "await"
    /\ ptask' = p_task
    /\ IF PromiseResolved(p_task)
       THEN /\ tpc' = "pr_take"
            /\ UNCHANGED <<pc, got>>
       ELSE /\ pc' = "select"
            /\ got' = NotReady
            /\ UNCHANGED tpc
    /\ UNCHANGED <<ready_mask, current_task_mask, tasks, event, task_id, mask,
                   fut, oredSince, pollJustified>>
    /\ UNCHANGED <<p_task, p_result, rpc, r_task, armed, sent,
                   debug_assertions, r_legal>>
    /\ UNCHANGED <<mvars, cvars, hvars, avars, uvars, fvars, svars>>

\* The cell keeps its value.
replace_Kept(cell, new) == cell

\* ptr::replace(cell, new): what the cell holds afterwards.
replace(cell, new) == new

\* Promise::poll, second half: ptr::replace(result, None).unwrap(); the
\* unwrap of None panics, otherwise the value goes to the awaiting future.
PromiseTake ==
    /\ MainRuns
    /\ pc = "poll"
    /\ tpc = "pr_take"
    /\ p_result' = replace(p_result, NoResult)
    /\ ptask' = {}
    /\ IF p_result = NoResult
       THEN /\ pc' = "panic"
            /\ UNCHANGED <<tpc, got, fut>>
       ELSE /\ got' = p_result
            /\ fut' = [fut EXCEPT ![task_id] = "run"]
            /\ tpc' = "body"
            /\ UNCHANGED pc
    /\ UNCHANGED <<ready_mask, current_task_mask, tasks, event, task_id, mask,
                   oredSince, pollJustified>>
    /\ UNCHANGED <<p_task, rpc, r_task, armed, sent, debug_assertions,
                   r_legal>>
    /\ UNCHANGED <<mvars, cvars, hvars, avars, uvars, fvars, svars>>

\* Promise::resolve(result), first statement: *self.result.get() =
\* Some(result). The producer (an interrupt handler or another thread of
\* execution) runs interleaved with the main thread.
ResolveWrite(result) ==
    /\ rpc = "idle"
    /\ armed
    /\ p_result' = result
    /\ sent' = result
    /\ armed' = FALSE
    /\ r_legal' = TRUE
    /\ rpc' = "swap"
    /\ UNCHANGED <<p_task, ptask, r_task, got, debug_assertions>>
    /\ UNCHANGED <<rvars, mvars, cvars, hvars, avars, uvars, fvars, svars>>

Resolve == \E result \in Results : ResolveWrite(result)

\* Promise::resolve(result), first statement, called on a promise that
\* has not been claimed since it was created empty or last resolved; the
\* first such call after construction or after a resolve that followed a
\* claim.
ResolveUnclaimed(result) ==
    /\ rpc = "idle"
    /\ ~armed
    /\ r_legal
    /\ p_result' = result
    /\ r_legal' = FALSE
    /\ rpc' = "swap"
    /\ UNCHANGED <<p_task, ptask, r_task, armed, sent, got, debug_assertions>>
    /\ UNCHANGED <<rvars, mvars, cvars, hvars, avars, uvars, fvars, svars>>

ResolveAgain == \E result \in Results : ResolveUnclaimed(result)

\* Promise::resolve, second statement: task = self.task.swap(0, Release).
ResolveSwap ==
    /\ rpc = "swap"
    /\ r_task' = p_task
    /\ p_task' = swap(p_task, {})
    /\ rpc' = "wake"
    /\ UNCHANGED <<p_result, ptask, armed, sent, got, debug_assertions,
                   r_legal>>
    /\ UNCHANGED <<rvars, mvars, cvars, hvars, avars, uvars, fvars, svars>>

\* The assertion is not evaluated.
AssertHolds_Always(task) == TRUE

\* debug_assert!(task != 0)
AssertHolds(task) == task # {}

\* Promise::resolve, last statements: debug_assert!(task != 0);
\* REACTOR.set_ready_task_mask(task).
ResolveWake ==
    /\ rpc = "wake"
    /\ IF debug_assertions /\ ~AssertHolds(r_task)
       THEN /\ rpc' = "panic"
            /\ UNCHANGED <<ready_mask, event, oredSince>>
       ELSE /\ rpc' = "idle"
            /\ set_ready_task_mask(r_task)
    /\ r_task' = {}
    /\ UNCHANGED <<current_task_mask, tasks, pc, task_id, mask, fut, tpc,
                   pollJustified>>
    /\ UNCHANGED <<p_task, p_result, ptask, armed, sent, got,
                   debug_assertions, r_legal>>
    /\ UNCHANGED <<mvars, cvars, hvars, avars, uvars, fvars, svars>>

\* ------------------------------------------------------------------------
\* CircularBuffer
\* ------------------------------------------------------------------------

\* Number of slots of the backing array.
RingLen == 3
\* Largest value pushed.
MaxItem == 2
\* Number of successful pushes explored.
MaxPush == 4

Items == 1..MaxItem

\* CircularBuffer::new(init): every slot holds init, head = tail = 0.
InitRing ==
    /\ array = [i \in 0..(RingLen - 1) |-> 0]
    /\ head = 0
    /\ tail = 0
    /\ ppc = "idle"
    /\ current_tail = 0
    /\ next_tail = 0
    /\ item = 0
    /\ cpc = "idle"
    /\ current_head = 0
    /\ taken = 0
    /\ pushed = <<>>
    /\ popped = <<>>
    /\ refused = FALSE

\* The index is not wrapped.
increment_NoWrap(idx) == idx + 1

\* (idx + 1) % len
increment(idx) == (idx + 1) % RingLen

\* The full test is dropped: push writes whatever the indices are.
RingFull_Never(next, h) == FALSE

\* push: `if next_tail == self.head.load(Acquire)`.
RingFull(next, h) == next = h

\* The empty test is dropped: pop reads whatever the indices are.
RingEmpty_Never(cur, t) == FALSE

\* pop: `if current_head == self.tail.load(Acquire)`.
RingEmpty(cur, t) == cur = t

\* CircularBuffer::was_empty(): head.load(Relaxed) == tail.load(Relaxed).
was_empty == head = tail

\* push: current_tail = tail.load(Relaxed); next_tail = increment(..).
PushLoadTail(it) ==
    /\ ppc = "idle"
    /\ Len(pushed) < MaxPush
    /\ item' = it
    /\ current_tail' = tail
    /\ next_tail' = increment(tail)
    /\ ppc' = "load_head"
    /\ UNCHANGED <<array, head, tail, cpc, current_head, taken, pushed, popped>>
    /\ UNCHANGED refused
    /\ UNCHANGED <<rvars, mvars, pvars, hvars, avars, uvars, fvars, svars>>

Push == \E it \in Items : PushLoadTail(it)

\* A full queue makes room by dropping its oldest element.
PushLoadHead_DropsOldest ==
    /\ ppc = "load_head"
    /\ IF RingFull(next_tail, head)
       THEN /\ ppc' = "write"
            /\ head' = increment(head)
       ELSE /\ ppc' = "write"
            /\ UNCHANGED head
    /\ refused' = (refused \/ RingFull(next_tail, head))
    /\ UNCHANGED <<array, tail, item, current_tail, next_tail, cpc,
                   current_head, taken, pushed, popped>>
    /\ UNCHANGED <<rvars, mvars, pvars, hvars, avars, uvars, fvars, svars>>

\* push: head.load(Acquire) and the comparison; a full queue returns false.
PushLoadHead ==
    /\ ppc = "load_head"
    /\ IF RingFull(next_tail, head)
       THEN /\ ppc' = "idle"
            /\ item' = 0
            /\ current_tail' = 0
            /\ next_tail' = 0
       ELSE /\ ppc' = "write"
            /\ UNCHANGED <<item, current_tail, next_tail>>
    /\ UNCHANGED <<array, head, tail, cpc, current_head, taken, pushed, popped>>
    /\ refused' = (refused \/ RingFull(next_tail, head))
    /\ UNCHANGED <<rvars, mvars, pvars, hvars, avars, uvars, fvars, svars>>

\* push: array[current_tail] = item.
PushWrite ==
    /\ ppc = "write"
    /\ array' = [array EXCEPT ![current_tail] = item]
    /\ ppc' = "store"
    /\ UNCHANGED <<head, tail, current_tail, next_tail, item, cpc,
                   current_head, taken, pushed, popped>>
    /\ UNCHANGED refused
    /\ UNCHANGED <<rvars, mvars, pvars, hvars, avars, uvars, fvars, svars>>

\* push: tail.store(next_tail, Release); return true.
PushStoreTail ==
    /\ ppc = "store"
    /\ tail' = next_tail
    /\ pushed' = Append(pushed, item)
    /\ ppc' = "idle"
    /\ item' = 0
    /\ current_tail' = 0
    /\ next_tail' = 0
    /\ UNCHANGED <<array, head, cpc, current_head, taken, popped>>
    /\ UNCHANGED refused
    /\ UNCHANGED <<rvars, mvars, pvars, hvars, avars, uvars, fvars, svars>>

\* pop: current_head = head.load(Relaxed).
PopLoadHead ==
    /\ cpc = "idle"
    /\ current_head' = head
    /\ cpc' = "load_tail"
    /\ UNCHANGED <<array, head, tail, ppc, current_tail, next_tail, item,
                   taken, pushed, popped>>
    /\ UNCHANGED refused
    /\ UNCHANGED <<rvars, mvars, pvars, hvars, avars, uvars, fvars, svars>>

\* pop: tail.load(Acquire) and the comparison; an empty queue returns None.
PopLoadTail ==
    /\ cpc = "load_tail"
    /\ IF RingEmpty(current_head, tail)
       THEN /\ cpc' = "idle"
            /\ current_head' = 0
       ELSE /\ cpc' = "read"
            /\ UNCHANGED current_head
    /\ UNCHANGED <<array, head, tail, ppc, current_tail, next_tail, item,
                   taken, pushed, popped>>
    /\ UNCHANGED refused
    /\ UNCHANGED <<rvars, mvars, pvars, hvars, avars, uvars, fvars, svars>>

\* pop: item = array[current_head].
PopRead ==
    /\ cpc = "read"
    /\ taken' = array[current_head]
    /\ cpc' = "store"
    /\ UNCHANGED <<array, head, tail, ppc, current_tail, next_tail, item,
                   current_head, pushed, popped>>
    /\ UNCHANGED refused
    /\ UNCHANGED <<rvars, mvars, pvars, hvars, avars, uvars, fvars, svars>>

\* pop: head.store(increment(current_head), Release); return Some(item).
PopStoreHead ==
    /\ cpc = "store"
    /\ head' = increment(current_head)
    /\ popped' = Append(popped, taken)
    /\ cpc' = "idle"
    /\ current_head' = 0
    /\ taken' = 0
    /\ UNCHANGED <<array, tail, ppc, current_tail, next_tail, item, pushed>>
    /\ UNCHANGED refused
    /\ UNCHANGED <<rvars, mvars, pvars, hvars, avars, uvars, fvars, svars>>

\* ------------------------------------------------------------------------
\* Usart: byte channel between tasks and the interrupt handler
\* ------------------------------------------------------------------------

\* Length of the arrays under the two ring buffers of the Usart.
UsartLen == 3
\* Largest byte value received or sent.
MaxByte == 2

Bytes == 1..MaxByte

\* Usart::new(): masks 0, both ring buffers empty; TXE interrupt off.
InitUsart ==
    /\ writer_task_mask = {}
    /\ reader_task_mask = {}
    /\ writer_buffer = <<>>
    /\ reader_buffer = <<>>
    /\ txe = FALSE
    /\ rd_item = <<>>
    /\ rd_owner = {}
    /\ rd_parked = {}
    /\ rd_since = <<>>
    /\ rd_was_empty = FALSE
    /\ wr_owner = {}
    /\ wr_parked = {}
    /\ wr_early = FALSE

\* The full test is off by one slot: push refuses one byte early.
push_ok_OffByOne(buf) == Len(buf) < UsartLen - 2

\* CircularBuffer::push on a buffer holding buf: whether it returns true.
\* An array of UsartLen slots is full with UsartLen - 1 elements.
push_ok(buf) == Len(buf) < UsartLen - 1

\* CircularBuffer::push(item): the bytes held afterwards.
push(buf, it) == IF push_ok(buf) THEN Append(buf, it) ELSE buf

\* CircularBuffer::pop(): None (the empty sequence) or Some(oldest byte).
pop(buf) == IF buf = <<>> THEN <<>> ELSE <<Head(buf)>>

\* pop() hands out the oldest byte without moving head.
popped_buf_Kept(buf) == buf

\* CircularBuffer::pop(): the bytes held afterwards.
popped_buf(buf) == IF buf = <<>> THEN buf ELSE Tail(buf)

\* The running task may act as the reader of the channel: nobody else does.
MayRead == rd_owner = {} \/ rd_owner = current_task_mask

\* poll_next, first statement: reader_task_mask.store(current task mask).
PollNextStore ==
    /\ MainRuns
    /\ InBody
    /\ fut[task_id] = "run"
    /\ MayRead
    /\ reader_task_mask' = store(reader_task_mask, get_current_task_mask)
    /\ tpc' = "rd_pop"
    /\ rd_owner' = current_task_mask
    /\ rd_parked' = {}
    /\ rd_since' = <<>>
    /\ rd_was_empty' = (reader_buffer = <<>>)
    /\ UNCHANGED <<ready_mask, current_task_mask, tasks, event, pc, task_id,
                   mask, fut, oredSince, pollJustified>>
    /\ UNCHANGED <<writer_task_mask, writer_buffer, reader_buffer, txe,
                   rd_item, wr_owner, wr_parked, wr_early>>
    /\ UNCHANGED <<mvars, pvars, cvars, hvars, avars, fvars, svars>>

\* poll_next: try_pop_reader(); None returns Pending from the task's poll.
PollNextPop ==
    /\ MainRuns
    /\ pc = "poll"
    /\ tpc = "rd_pop"
    /\ rd_item' = pop(reader_buffer)
    /\ reader_buffer' = popped_buf(reader_buffer)
    /\ IF pop(reader_buffer) = <<>>
       THEN /\ pc' = "select"
            /\ tpc' = "body"
            /\ rd_parked' = current_task_mask
       ELSE /\ tpc' = "rd_clear"
            /\ UNCHANGED <<pc, rd_parked>>
    /\ rd_since' = <<>>
    /\ rd_was_empty' = FALSE
    /\ UNCHANGED <<ready_mask, current_task_mask, tasks, event, task_id,
                   mask, fut, oredSince, pollJustified>>
    /\ UNCHANGED <<writer_task_mask, reader_task_mask, writer_buffer, txe,
                   rd_owner, wr_owner, wr_parked, wr_early>>
    /\ UNCHANGED <<mvars, pvars, cvars, hvars, avars, fvars, svars>>

\* poll_next, Some(x): reader_task_mask.store(0); Ready(Some(x)) goes to
\* the task, which runs on.
PollNextClear ==
    /\ MainRuns
    /\ pc = "poll"
    /\ tpc = "rd_clear"
    /\ reader_task_mask' = store(reader_task_mask, {})
    /\ tpc' = "body"
    /\ rd_item' = <<>>
    /\ UNCHANGED rvars_but_tpc
    /\ UNCHANGED <<writer_task_mask, writer_buffer, reader_buffer, txe,
                   rd_owner, rd_parked, rd_since, rd_was_empty, wr_owner,
                   wr_parked, wr_early>>
    /\ UNCHANGED <<mvars, pvars, cvars, hvars, avars, fvars, svars>>

\* No mask is handed to the reactor.
pushed_mask_None(res, m) == {}

\* try_push_reader: the mask handed to set_ready_task_mask, if any.
pushed_mask(res, m) == IF res THEN m ELSE {}

\* isr(), RXNE: try_push_reader(c). The handler runs to its end before
\* the main thread goes on. A full buffer drops the byte.
IsrRx(c) ==
    /\ MainRuns
    /\ LET res == push_ok(reader_buffer)
       IN  /\ reader_buffer' = push(reader_buffer, c)
           /\ reader_task_mask' =
                 IF res THEN swap(reader_task_mask, {}) ELSE reader_task_mask
           /\ set_ready_task_mask(pushed_mask(res, reader_task_mask))
           /\ rd_parked' = IF res THEN {} ELSE rd_parked
           /\ rd_since' = IF res /\ pc = "poll" /\ tpc = "rd_pop"
                          THEN Append(rd_since, c) ELSE rd_since
    /\ UNCHANGED <<current_task_mask, tasks, pc, task_id, mask, fut, tpc,
                   pollJustified>>
    /\ UNCHANGED <<writer_task_mask, writer_buffer, txe, rd_item, rd_owner,
                   rd_was_empty, wr_owner, wr_parked, wr_early>>
    /\ UNCHANGED <<mvars, pvars, cvars, hvars, avars, fvars, svars>>

IsrRxne == \E c \in Bytes : IsrRx(c)

\* CircularBuffer::was_full(): no further push would succeed.
was_full(buf) == Len(buf) = UsartLen - 1

\* CircularBuffer::was_empty() on a buffer holding buf.
buffer_was_empty(buf) == buf = <<>>

\* The running task may act as the writer of the channel: nobody else does.
MayWrite == wr_owner = {} \/ wr_owner = current_task_mask

\* poll_ready and poll_flush, first statement:
\* writer_task_mask.store(current task mask).
WriterStore(next) ==
    /\ MainRuns
    /\ InBody
    /\ fut[task_id] = "run"
    /\ MayWrite
    /\ writer_task_mask' = store(writer_task_mask, get_current_task_mask)
    /\ tpc' = next
    /\ wr_owner' = current_task_mask
    /\ wr_parked' = {}
    /\ wr_early' = FALSE
    /\ UNCHANGED rvars_but_tpc
    /\ UNCHANGED <<reader_task_mask, writer_buffer, reader_buffer, txe,
                   rd_item, rd_owner, rd_parked, rd_since, rd_was_empty>>
    /\ UNCHANGED <<mvars, pvars, cvars, hvars, avars, fvars, svars>>

PollReadyStore == WriterStore("wr_check")
PollFlushStore == WriterStore("fl_check")

\* poll_ready and poll_flush, the test of the buffer: Pending leaves the
\* mask stored and returns from the task's poll; otherwise the mask is
\* cleared next.
WriterCheck(at, pending, next) ==
    /\ MainRuns
    /\ pc = "poll"
    /\ tpc = at
    /\ IF pending
       THEN /\ pc' = "select"
            /\ tpc' = "body"
            /\ wr_parked' = current_task_mask
       ELSE /\ tpc' = next
            /\ UNCHANGED <<pc, wr_parked>>
    /\ UNCHANGED <<ready_mask, current_task_mask, tasks, event, task_id,
                   mask, fut, oredSince, pollJustified>>
    /\ UNCHANGED <<writer_task_mask, reader_task_mask, writer_buffer,
                   reader_buffer, txe, rd_item, rd_owner, rd_parked,
                   rd_since, rd_was_empty, wr_owner, wr_early>>
    /\ UNCHANGED <<mvars, pvars, cvars, hvars, avars, fvars, svars>>

\* poll_ready: `if self.writer_buffer.was_full()`.
PollReadyCheck == WriterCheck("wr_check", was_full(writer_buffer), "wr_clear")

\* poll_flush: `if self.writer_buffer.was_empty()`.
PollFlushCheck ==
    WriterCheck("fl_check", ~buffer_was_empty(writer_buffer), "fl_clear")

\* poll_ready and poll_flush, Ready: writer_task_mask.store(0).
WriterClear(at, next) ==
    /\ MainRuns
    /\ pc = "poll"
    /\ tpc = at
    /\ writer_task_mask' = store(writer_task_mask, {})
    /\ tpc' = next
    /\ UNCHANGED rvars_but_tpc
    /\ UNCHANGED <<reader_task_mask, writer_buffer, reader_buffer, txe,
                   rd_item, rd_owner, rd_parked, rd_since, rd_was_empty,
                   wr_owner, wr_parked, wr_early>>
    /\ UNCHANGED <<mvars, pvars, cvars, hvars, avars, fvars, svars>>

\* poll_ready returned Ready: the task goes on to start_send.
PollReadyClear == WriterClear("wr_clear", "send_push")

\* poll_flush returned Ready: the task runs on.
PollFlushClear == WriterClear("fl_clear", "body")

\* start_send(item) -> try_push_writer: writer_buffer.push(item); a
\* refused push panics in start_send.
StartSendPush(it) ==
    /\ MainRuns
    /\ pc = "poll"
    /\ tpc = "send_push"
    /\ writer_buffer' = push(writer_buffer, it)
    /\ IF push_ok(writer_buffer)
       THEN tpc' = "send_store" /\ UNCHANGED pc
       ELSE pc' = "panic" /\ UNCHANGED tpc
    /\ UNCHANGED <<ready_mask, current_task_mask, tasks, event, task_id,
                   mask, fut, oredSince, pollJustified>>
    /\ UNCHANGED <<writer_task_mask, reader_task_mask, reader_buffer, txe,
                   rd_item, rd_owner, rd_parked, rd_since, rd_was_empty,
                   wr_owner, wr_parked, wr_early>>
    /\ UNCHANGED <<mvars, pvars, cvars, hvars, avars, fvars, svars>>

StartSend == \E it \in Bytes : StartSendPush(it)

\* try_push_writer, res true: writer_task_mask.store(0).
StartSendStore ==
    /\ MainRuns
    /\ pc = "poll"
    /\ tpc = "send_store"
    /\ writer_task_mask' = store(writer_task_mask, {})
    /\ tpc' = "send_enable"
    /\ UNCHANGED rvars_but_tpc
    /\ UNCHANGED <<reader_task_mask, writer_buffer, reader_buffer, txe,
                   rd_item, rd_owner, rd_parked, rd_since, rd_was_empty,
                   wr_owner, wr_parked, wr_early>>
    /\ UNCHANGED <<mvars, pvars, cvars, hvars, avars, fvars, svars>>

\* try_push_writer and start_send: usart.it_enable(TXE); Ok(()).
StartSendEnable ==
    /\ MainRuns
    /\ pc = "poll"
    /\ tpc = "send_enable"
    /\ txe' = TRUE
    /\ tpc' = "sent"
    /\ UNCHANGED rvars_but_tpc
    /\ UNCHANGED <<writer_task_mask, reader_task_mask, writer_buffer,
                   reader_buffer, rd_item, rd_owner, rd_parked, rd_since,
                   rd_was_empty, wr_owner, wr_parked, wr_early>>
    /\ UNCHANGED <<mvars, pvars, cvars, hvars, avars, fvars, svars>>

\* start_send has returned Ok(()) and its caller goes on with cur as
\* its count of bytes sent and got_ as the items its sink was handed.
SentReturn(cur, got_) ==
    /\ MainRuns
    /\ pc = "poll"
    /\ tpc = "sent"
    /\ tpc' = "body"
    /\ ss_cur' = cur
    /\ sink_got' = got_
    /\ UNCHANGED rvars_but_tpc
    /\ UNCHANGED <<ss_string, ss_sink, ss_pc, ss_ret, ss_task, dr_log>>
    /\ UNCHANGED <<mvars, pvars, cvars, hvars, avars, uvars>>
    /\ UNCHANGED <<stvars, savars, tuvars, svars>>

\* The caller is any task body.
StartSendReturn == SentReturn(ss_cur, sink_got)

\* No mask is handed to the reactor.
popped_mask_None(res, m) == {}

\* try_pop_writer: the mask handed to set_ready_task_mask, if any.
popped_mask(res, m) == IF res # <<>> THEN m ELSE {}

\* isr(), TXE arm: `self.usart.put_unsafe(c)` for Some(c). The bytes put to
\* the data register are logged while a fixed string is being sent.
put_unsafe(res) ==
    IF res # <<>> /\ ss_string # <<>> THEN Append(dr_log, res[1]) ELSE dr_log

\* isr(), TXE: try_pop_writer(); Some(c) is put to the transmitter, None
\* disables the TXE interrupt. The handler runs to its end before the
\* main thread goes on.
IsrTxe ==
    /\ MainRuns
    /\ txe
    /\ LET res == pop(writer_buffer)
       IN  /\ writer_buffer' = popped_buf(writer_buffer)
           /\ writer_task_mask' =
                 IF res # <<>> THEN swap(writer_task_mask, {})
                 ELSE writer_task_mask
           /\ set_ready_task_mask(popped_mask(res, writer_task_mask))
           /\ wr_parked' = IF res # <<>> THEN {} ELSE wr_parked
           /\ txe' = (res # <<>>)
           /\ wr_early' = (wr_early \/ (res # <<>> /\ pc = "poll"
                                        /\ tpc \in {"wr_check", "fl_check"}))
           /\ dr_log' = put_unsafe(res)
    /\ UNCHANGED <<current_task_mask, tasks, pc, task_id, mask, fut, tpc,
                   pollJustified>>
    /\ UNCHANGED <<reader_task_mask, reader_buffer, rd_item, rd_owner,
                   rd_parked, rd_since, rd_was_empty, wr_owner>>
    /\ UNCHANGED <<ss_string, ss_cur, ss_sink, ss_pc, ss_ret, sink_got,
                   ss_task>>
    /\ UNCHANGED <<mvars, pvars, cvars, hvars, avars>>
    /\ UNCHANGED <<stvars, savars, tuvars, svars>>

\* ------------------------------------------------------------------------
\* StartSendAllString (breactor/src/start_send_all_string.rs)
\* ------------------------------------------------------------------------

\* Longest string sent.
MaxStr == 3

\* The strings sent: as_bytes() of the &str.
Strings == UNION {[1..n -> Bytes] : n \in 0..MaxStr}

\* What poll_ready and start_send of a sink may answer.
SinkAnswers == {"Ok", "Err", "Pending"}

\* StartSendAllString::new(sink, string) for the task of the given id; the
\* empty string of task 0 stands for no future at all.
new_string(string, id) ==
    /\ ss_string = string
    /\ ss_task = id
    /\ ss_cur = 0
    /\ ss_sink = TRUE
    /\ ss_pc = "start"
    /\ ss_ret = None
    /\ sink_got = <<>>
    /\ dr_log = <<>>

\* A stream that yields the given items and then ends.
new_stream(items) ==
    /\ src_items = items
    /\ src_pos = 0

\* start_send_all::new(sink, stream).
new_send_all ==
    /\ sa_sink = TRUE
    /\ sa_stream = TRUE
    /\ buffered = <<>>
    /\ sa_item = 0
    /\ sa_pc = "start"
    /\ sa_ret = None

\* TakeUntil::new(buffer, stream, matches) with a zeroed buffer of the given
\* length.
new_take_until(len, delimiters) ==
    /\ buffer = [i \in 1..len |-> 0]
    /\ tu_stream = TRUE
    /\ matches = delimiters
    /\ tu_cur = 0
    /\ tu_pc = "start"
    /\ tu_ret = [tag |-> None]

InitFutures ==
    /\ new_string(<<>>, 0)
    /\ new_stream(<<>>)
    /\ new_send_all
    /\ new_take_until(0, <<>>)

\* poll() is called on a future that has not completed.
SendStringPoll ==
    /\ ss_pc = "start"
    /\ ss_ret \in {None, "Pending"}
    /\ ss_pc' = "loop"
    /\ ss_ret' = None
    /\ UNCHANGED <<ss_string, ss_cur, ss_sink, sink_got, ss_task, dr_log>>
    /\ UNCHANGED <<rvars, mvars, pvars, cvars, hvars, avars, uvars>>
    /\ UNCHANGED <<stvars, savars, tuvars, svars>>

\* `while this.cur < this.string.as_bytes().len()`; after the loop
\* Poll::Ready(Ok(self.take_result())).
SendStringLoop ==
    /\ ss_pc = "loop"
    /\ IF ss_cur < Len(ss_string)
       THEN /\ ss_pc' = "poll_ready"
            /\ UNCHANGED <<ss_sink, ss_ret>>
       ELSE /\ ss_pc' = "done"
            /\ ss_sink' = FALSE
            /\ ss_ret' = "Ok"
    /\ UNCHANGED <<ss_string, ss_cur, sink_got, ss_task, dr_log>>
    /\ UNCHANGED <<rvars, mvars, pvars, cvars, hvars, avars, uvars>>
    /\ UNCHANGED <<stvars, savars, tuvars, svars>>

\* `match Pin::new(this.sink_mut()).poll_ready(cx)`, the sink answering r.
SendStringPollReady(r) ==
    /\ ss_pc = "poll_ready"
    /\ ss_sink
    /\ CASE r = "Ok" -> ss_pc' = "start_send" /\ UNCHANGED ss_ret
         [] r = "Err" -> ss_pc' = "done" /\ ss_ret' = "Err"
         [] r = "Pending" -> ss_pc' = "start" /\ ss_ret' = "Pending"
    /\ UNCHANGED <<ss_string, ss_cur, ss_sink, sink_got, ss_task, dr_log>>
    /\ UNCHANGED <<rvars, mvars, pvars, cvars, hvars, avars, uvars>>
    /\ UNCHANGED <<stvars, savars, tuvars, svars>>

SendStringReady == \E r \in SinkAnswers : SendStringPollReady(r)

\* The first byte is sent whatever cur is.
ss_item_First(string, cur) == string[1]

\* `let item = this.string.as_bytes()[this.cur]`.
ss_item(string, cur) == string[cur + 1]

\* `Pin::new(this.sink_mut()).start_send(item)?`, the sink answering r.
SendStringStartSend(r) ==
    /\ ss_pc = "start_send"
    /\ ss_sink
    /\ sink_got' = Append(sink_got, ss_item(ss_string, ss_cur))
    /\ IF r = "Ok"
       THEN ss_pc' = "inc" /\ UNCHANGED ss_ret
       ELSE ss_pc' = "done" /\ ss_ret' = "Err"
    /\ UNCHANGED <<ss_string, ss_cur, ss_sink, ss_task, dr_log>>
    /\ UNCHANGED <<rvars, mvars, pvars, cvars, hvars, avars, uvars>>
    /\ UNCHANGED <<stvars, savars, tuvars, svars>>

SendStringSend == \E r \in {"Ok", "Err"} : SendStringStartSend(r)

\* `this.cur += 1`.
SendStringInc ==
    /\ ss_pc = "inc"
    /\ ss_cur' = ss_cur + 1
    /\ ss_pc' = "loop"
    /\ UNCHANGED <<ss_string, ss_sink, ss_ret, sink_got, ss_task, dr_log>>
    /\ UNCHANGED <<rvars, mvars, pvars, cvars, hvars, avars, uvars>>
    /\ UNCHANGED <<stvars, savars, tuvars, svars>>

\* ------------------------------------------------------------------------
\* StartSendAll (breactor/src/start_send_all.rs)
\* ------------------------------------------------------------------------

\* poll() is called on a future that has not completed.
SendAllPoll ==
    /\ sa_pc = "start"
    /\ sa_ret \in {None, "Pending"}
    /\ sa_pc' = "take"
    /\ sa_ret' = None
    /\ UNCHANGED <<sa_sink, sa_stream, buffered, sa_item>>
    /\ UNCHANGED <<rvars, mvars, pvars, cvars, hvars, avars, uvars>>
    /\ UNCHANGED <<ssvars, stvars, tuvars, svars>>

\* poll: `if let Some(item) = this.buffered.take()`.
SendAllTake ==
    /\ sa_pc = "take"
    /\ IF buffered # <<>>
       THEN /\ sa_item' = buffered[1]
            /\ sa_pc' = "try_start_send"
       ELSE /\ sa_pc' = "poll_next"
            /\ UNCHANGED sa_item
    /\ buffered' = <<>>
    /\ UNCHANGED <<sa_sink, sa_stream, sa_ret>>
    /\ UNCHANGED <<rvars, mvars, pvars, cvars, hvars, avars, uvars>>
    /\ UNCHANGED <<ssvars, stvars, tuvars, svars>>

\* The item is dropped when the sink is not ready.
keep_Dropped(it) == <<>>

\* try_start_send, Poll::Pending: `self.buffered = Some(item)`.
keep(it) == <<it>>

\* try_start_send: `match Pin::new(self.sink_mut()).poll_ready(cx)`, the
\* sink answering r; its Pending and Err leave poll through ready!, ? and
\* try_ready!.
try_start_send(r) ==
    /\ sa_pc = "try_start_send"
    /\ sa_sink
    /\ CASE r = "Ok" -> sa_pc' = "start_send" /\ UNCHANGED <<sa_ret, buffered>>
         [] r = "Err" ->
               sa_pc' = "done" /\ sa_ret' = "Err" /\ UNCHANGED buffered
         [] r = "Pending" ->
               /\ buffered' = keep(sa_item)
               /\ sa_pc' = "start"
               /\ sa_ret' = "Pending"
    /\ UNCHANGED <<sa_sink, sa_stream, sa_item>>
    /\ UNCHANGED <<rvars, mvars, pvars, cvars, hvars, avars, uvars>>
    /\ UNCHANGED <<ssvars, stvars, tuvars, svars>>

SendAllReady == \E r \in SinkAnswers : try_start_send(r)

\* try_start_send: `Poll::Ready(Pin::new(self.sink_mut()).start_send(item))`,
\* the sink answering r.
SendAllStartSend(r) ==
    /\ sa_pc = "start_send"
    /\ sa_sink
    /\ sink_got' = Append(sink_got, sa_item)
    /\ IF r = "Ok"
       THEN sa_pc' = "poll_next" /\ UNCHANGED sa_ret
       ELSE sa_pc' = "done" /\ sa_ret' = "Err"
    /\ UNCHANGED <<sa_sink, sa_stream, buffered, sa_item>>
    /\ UNCHANGED <<ss_string, ss_cur, ss_sink, ss_pc, ss_ret, ss_task, dr_log>>
    /\ UNCHANGED <<rvars, mvars, pvars, cvars, hvars, avars, uvars>>
    /\ UNCHANGED <<stvars, tuvars, svars>>

SendAllSend == \E r \in {"Ok", "Err"} : SendAllStartSend(r)

\* What poll_next of the stream may answer now: Pending at any time,
\* otherwise the next item or the end.
StreamAnswers ==
    {<<"Pending">>} \cup
    (IF src_pos < Len(src_items)
     THEN {<<"Some", src_items[src_pos + 1]>>} ELSE {<<"None">>})

\* The stream after it answered a.
poll_next(a) ==
    src_pos' = IF a[1] = "Some" THEN src_pos + 1 ELSE src_pos

\* poll, the loop: `match Pin::new(this.stream_mut()).poll_next(cx)`.
SendAllPollNext(a) ==
    /\ sa_pc = "poll_next"
    /\ sa_stream
    /\ poll_next(a)
    /\ CASE a[1] = "Some" ->
               /\ sa_item' = a[2]
               /\ sa_pc' = "try_start_send"
               /\ UNCHANGED <<sa_sink, sa_stream, sa_ret>>
         [] a[1] = "None" ->
               /\ sa_pc' = "done"
               /\ sa_ret' = "Ok"
               /\ sa_sink' = FALSE
               /\ sa_stream' = FALSE
               /\ UNCHANGED sa_item
         [] a[1] = "Pending" ->
               /\ sa_pc' = "start"
               /\ sa_ret' = "Pending"
               /\ UNCHANGED <<sa_sink, sa_stream, sa_item>>
    /\ UNCHANGED <<buffered, src_items>>
    /\ UNCHANGED <<rvars, mvars, pvars, cvars, hvars, avars, uvars>>
    /\ UNCHANGED <<ssvars, tuvars, svars>>

SendAllNext == \E a \in StreamAnswers : SendAllPollNext(a)

\* ------------------------------------------------------------------------
\* TakeUntil (dev/esp8266.rs)
\* ------------------------------------------------------------------------

\* Longest buffer handed to TakeUntil.
MaxBuf == 3
\* Longest delimiter.
MaxDelim == 2

\* The delimiters, and the arrays of one or two of them given as matches.
Delimiters == UNION {[1..n -> Bytes] : n \in 0..MaxDelim}
MatchArrays == UNION {[1..n -> Delimiters] : n \in {1, 2}}

\* What an uninitialised byte may read as.
Uninit == {0} \cup Bytes

\* m occurs at the start of s.
ends_with_Starts(s, m) == Len(m) <= Len(s) /\ SubSeq(s, 1, Len(m)) = m

\* <[u8]>::ends_with.
ends_with(s, m) ==
    Len(m) <= Len(s) /\ SubSeq(s, Len(s) - Len(m) + 1, Len(s)) = m

\* `for m in self.matches.as_slice()`: the index of the first delimiter the
\* first n bytes of buf end with, 0 when there is none.
first_match(buf, n, ms) ==
    LET hits == {i \in 1..Len(ms) : ends_with(SubSeq(buf, 1, n), ms[i])}
    IN  IF hits = {} THEN 0 ELSE CHOOSE i \in hits : \A j \in hits : i <= j

\* poll() is called on a future that has not completed.
TakeUntilPoll ==
    /\ tu_pc = "start"
    /\ tu_ret.tag \in {None, "Pending"}
    /\ tu_pc' = "loop"
    /\ tu_ret' = [tag |-> None]
    /\ UNCHANGED <<buffer, tu_stream, matches, tu_cur>>
    /\ UNCHANGED <<rvars, mvars, pvars, cvars, hvars, avars, uvars>>
    /\ UNCHANGED <<ssvars, stvars, savars, svars>>

\* poll, top of the loop: `if self.cur >= self.buffer.as_slice().len()`.
TakeUntilLoop ==
    /\ tu_pc = "loop"
    /\ IF tu_cur >= Len(buffer)
       THEN /\ tu_ret' = [tag |-> "BufferOverflow"]
            /\ tu_stream' = FALSE
            /\ tu_pc' = "done"
       ELSE /\ tu_pc' = "poll_next"
            /\ UNCHANGED <<tu_ret, tu_stream>>
    /\ UNCHANGED <<buffer, matches, tu_cur>>
    /\ UNCHANGED <<rvars, mvars, pvars, cvars, hvars, avars, uvars>>
    /\ UNCHANGED <<ssvars, stvars, savars, svars>>

\* poll: `match Pin::new(self.stream.as_mut().take().unwrap()).poll_next(cx)`;
\* Some(c) is stored at cur and cur is incremented.
TakeUntilPollNext(a) ==
    /\ tu_pc = "poll_next"
    /\ tu_stream
    /\ poll_next(a)
    /\ CASE a[1] = "Some" ->
               /\ buffer' = [buffer EXCEPT ![tu_cur + 1] = a[2]]
               /\ tu_cur' = tu_cur + 1
               /\ tu_pc' = "match"
               /\ UNCHANGED <<tu_ret, tu_stream>>
         [] a[1] = "None" ->
               /\ tu_ret' = [tag |-> "Finished"]
               /\ tu_stream' = FALSE
               /\ tu_pc' = "done"
               /\ UNCHANGED <<buffer, tu_cur>>
         [] a[1] = "Pending" ->
               /\ tu_ret' = [tag |-> "Pending"]
               /\ tu_pc' = "start"
               /\ UNCHANGED <<buffer, tu_cur, tu_stream>>
    /\ UNCHANGED <<matches, src_items>>
    /\ UNCHANGED <<rvars, mvars, pvars, cvars, hvars, avars, uvars>>
    /\ UNCHANGED <<ssvars, savars, svars>>

TakeUntilNext == \E a \in StreamAnswers : TakeUntilPollNext(a)

\* poll: the loop over matches. On a hit the first cur bytes are cloned
\* into b, whose other bytes stay uninitialised (rest), and poll returns
\* Ok((b, cur, m, stream)).
TakeUntilMatch(rest) ==
    /\ tu_pc = "match"
    /\ LET i == first_match(buffer, tu_cur, matches)
       IN  IF i # 0
           THEN /\ tu_ret' = [tag |-> "Ok",
                              b |-> [k \in 1..Len(buffer) |->
                                        IF k <= tu_cur THEN buffer[k]
                                        ELSE rest[k]],
                              length |-> tu_cur,
                              delimiter |-> matches[i]]
                /\ tu_stream' = FALSE
                /\ tu_pc' = "done"
           ELSE /\ tu_pc' = "loop"
                /\ UNCHANGED <<tu_ret, tu_stream>>
    /\ UNCHANGED <<buffer, matches, tu_cur>>
    /\ UNCHANGED <<rvars, mvars, pvars, cvars, hvars, avars, uvars>>
    /\ UNCHANGED <<ssvars, stvars, savars, svars>>

TakeUntilMatches ==
    \E rest \in [1..Len(buffer) -> Uninit] :
        /\ \A k \in 1..tu_cur : rest[k] = 0
        /\ TakeUntilMatch(rest)

\* ------------------------------------------------------------------------
\* Smalloc
\* ------------------------------------------------------------------------

\* Largest number of allocations alive at once.
MaxLive == 3
\* Number of alloc and free calls explored.
MaxOps == 8
\* Number of calls of the allocation hooks of linkmem explored.
MaxCalls == 5

\* size_of::<*mut u8>(), size_of::<BusyBlock>(), size_of::<FreeBlock>() on
\* the 32-bit target.
PSize == 4
BBSize == 4
FBSize == 8
MAX_ALLOC == 64 * 1024 - 4
U16_MAX == 65535

\* Regions: the smallest test region, the kernel heap, a test region that
\* init tiles into several blocks.
SmallRegion == 36 + PSize
TestRegion == 256
HEAP_SIZE == 64 * 1024
LargeRegion == 130 * 1024
Regions == {SmallRegion, TestRegion, HEAP_SIZE, LargeRegion}

\* Sizes asked of alloc.
Requests == {0, 5, 8, 12, 20, MAX_ALLOC, U16_MAX, U16_MAX + 1}

\* `as u16` and u16 arithmetic.
U16(x) == x % (U16_MAX + 1)

\* Pointers: the null pointer, or an offset from Smalloc.start.
Null == <<>>
Ptr(a) == <<a>>
At(p) == p[1]

\* FreeBlock::is_free
is_free(b) == b.prev_size % 2 # 0

\* No call of alloc or free has been made: op is the call, request its
\* argument (alloc), ptr its result (alloc) or argument (free), block and s
\* the address and size of the free block alloc chose.
NoOp == [op |-> "none", request |-> 0, ptr |-> Null, block |-> 0, s |-> 0]

\* No copy has been made: from and to are the pointers copy_nonoverlapping
\* was given, len its count, room the payload of the block at to, over the
\* headers the bytes written past that payload lie on.
NoCopy == [from |-> Null, to |-> Null, len |-> 0, room |-> 0, over |-> {}]

\* The Smalloc value is constructed over a region; init has not run.
InitSmalloc(region) ==
    /\ hsize = region
    /\ hhead = Null
    /\ hmem = <<>>
    /\ live = {}
    /\ inited = FALSE
    /\ ops = 0
    /\ held = FALSE
    /\ last_op = NoOp
    /\ last_copy = NoCopy

\* *self.get_next_ptr(block), read.
load_next(st, block) ==
    IF block = Null THEN st.head ELSE st.mem[At(block)].next

\* A FreeBlock laid over the header b, with the given next field.
with_next(b, v) == [prev_size |-> b.prev_size, size |-> b.size, next |-> v]

\* *self.get_next_ptr(block) = v.
store_next(st, block, v) ==
    IF block = Null
    THEN [st EXCEPT !.head = v]
    ELSE [st EXCEPT !.mem[At(block)] = with_next(@, v)]

\* The loop of init, one block per iteration.
RECURSIVE init_loop(_, _, _, _)
init_loop(mem, prev_size, cur_offset, size) ==
    IF size = 0
    THEN mem
    ELSE LET room == size - BBSize
             cur_size == IF MAX_ALLOC < room THEN MAX_ALLOC ELSE room
             rest == size - (cur_size + BBSize)
             block == [prev_size |-> U16(prev_size + 1),
                       size |-> U16(cur_size),
                       next |-> IF rest = 0
                                THEN Null
                                ELSE Ptr(cur_offset + BBSize + MAX_ALLOC)]
         IN init_loop((cur_offset :> block) @@ mem, U16(cur_size),
                      cur_offset + cur_size + BBSize, rest)

\* Smalloc::init
init(region) ==
    [head |-> Ptr(PSize), mem |-> init_loop(<<>>, 0, PSize, region - PSize)]

\* The loop of find_free_after.
RECURSIVE find_free_loop(_, _, _, _)
find_free_loop(st, size, prev, cur) ==
    IF cur # Null /\ st.mem[At(cur)].size < size
    THEN find_free_loop(st, size, cur, st.mem[At(cur)].next)
    ELSE <<prev, cur>>

find_free_after(st, size, after) ==
    find_free_loop(st, size, after, load_next(st, after))

find_free_block(st, size) == find_free_after(st, size, Null)

\* The loop of install_free_block: past the equal-sized blocks at lower
\* addresses.
RECURSIVE install_loop(_, _, _, _)
install_loop(st, block, prev, next) ==
    IF /\ next # Null
       /\ st.mem[At(next)].size = st.mem[At(block)].size
       /\ At(block) > At(next)
    THEN install_loop(st, block, next, st.mem[At(next)].next)
    ELSE <<prev, next>>

install_free_block(st, block) ==
    LET found == find_free_block(st, st.mem[At(block)].size)
        place == install_loop(st, block, found[1], found[2])
        linked == store_next(st, place[1], block)
    IN [linked EXCEPT !.mem[At(block)] = with_next(@, place[2])]

\* The loop of find_previous_block.
RECURSIVE find_previous_loop(_, _, _, _)
find_previous_loop(st, block, prev, cur) ==
    IF cur # block
    THEN find_previous_loop(st, block, cur, st.mem[At(cur)].next)
    ELSE prev

find_previous_block(st, block) == find_previous_loop(st, block, Null, st.head)

\* The request is used as it came.
RoundUp_None(size) == size

\* (size + psize() - 1) & !(psize() - 1)
RoundUp(size) == ((size + PSize - 1) \div PSize) * PSize

\* The remainder of a split is written with the free bit clear.
SplitTag_Busy(size) == U16(size)

\* alloc: prev_size of the remainder of a split, (size + 1) as u16.
SplitTag(size) == U16(size + 1)

\* The tail is kept whenever it can hold a header.
TooSmall_Header(prev_cur_size, size) == prev_cur_size - size < BBSize

\* alloc: `if (prev_cur_size as isize) - (size as isize) < ifbsize()`: the
\* block is handed out whole.
TooSmall(prev_cur_size, size) == prev_cur_size - size < FBSize

\* The header of the remainder is not taken off.
SplitSize_NoHeader(prev_cur_size, size) == U16(prev_cur_size - U16(size))

\* alloc: `size: prev_cur_size - size as u16 - bbsize() as u16`.
SplitSize(prev_cur_size, size) == U16(prev_cur_size - U16(size) - BBSize)

\* The free bit is left in the tag.
BusyTag_Free(prev_size) == prev_size

\* alloc: the tag of the block handed out, `(*cur).prev_size - 1`: the free
\* bit is cleared.
BusyTag(prev_size) == U16(prev_size - 1)

\* Smalloc::alloc on the heap st of a region ending at offset end: the heap
\* afterwards and the pointer returned.
alloc(st, end, request) ==
    IF request = 0 \/ request > U16_MAX
    THEN [st |-> st, ret |-> Null]
    ELSE
    LET size == RoundUp(request)
        found == find_free_block(st, U16(size))
        prev_empty == found[1]
        cur == found[2]
    IN IF cur = Null
       THEN [st |-> st, ret |-> Null]
       ELSE
       LET unlinked == store_next(st, prev_empty, st.mem[At(cur)].next)
           prev_cur_size == st.mem[At(cur)].size
           whole == TooSmall(prev_cur_size, size)
           split_next == At(cur) + BBSize + size
           split_size == SplitSize(prev_cur_size, size)
           written == [unlinked EXCEPT !.mem =
                          (split_next :> [prev_size |-> SplitTag(size),
                                          size |-> split_size,
                                          next |-> Null]) @@ @]
           split_next_next == split_next + split_size + BBSize
           tagged == IF split_next_next < end
                     THEN [written EXCEPT !.mem[split_next_next].prev_size =
                              U16(split_size +
                                  (IF is_free(written.mem[split_next_next])
                                   THEN 1 ELSE 0))]
                     ELSE written
           after == IF whole
                    THEN unlinked
                    ELSE install_free_block(tagged, Ptr(split_next))
           busy_size == IF whole THEN prev_cur_size ELSE size
           busy == [prev_size |-> BusyTag(after.mem[At(cur)].prev_size),
                    size |-> U16(busy_size)]
       IN [st |-> [after EXCEPT !.mem[At(cur)] = busy],
           ret |-> Ptr(At(cur) + BBSize)]

\* free, first half: merge with the previous block or set the free bit.
\* Yields the heap and the block that goes on.
free_prev(st, end, block, prev_block, next_block) ==
    IF /\ st.mem[block].prev_size # 0
       /\ is_free(st.mem[prev_block])
       /\ st.mem[block].size + st.mem[prev_block].size + BBSize < MAX_ALLOC
    THEN LET prev == find_previous_block(st, Ptr(prev_block))
             unlinked == store_next(st, prev, st.mem[prev_block].next)
             grow == st.mem[prev_block].size + BBSize
             tagged == IF next_block < end
                       THEN [unlinked EXCEPT !.mem[next_block].prev_size =
                                                 U16(@ + grow)]
                       ELSE unlinked
         IN [st |-> [tagged EXCEPT !.mem[prev_block].size =
                                       U16(@ + st.mem[block].size + BBSize)],
             block |-> prev_block]
    ELSE [st |-> [st EXCEPT !.mem[block].prev_size = U16(@ + 1)],
          block |-> block]

\* free, second half: merge with the next block.
free_next(st, end, block, next_block) ==
    IF /\ next_block < end
       /\ is_free(st.mem[next_block])
       /\ st.mem[block].size + st.mem[next_block].size + BBSize < MAX_ALLOC
    THEN LET prev == find_previous_block(st, Ptr(next_block))
             unlinked == store_next(st, prev, st.mem[next_block].next)
             next_next == next_block + BBSize + st.mem[next_block].size
             tagged == IF next_next < end
                       THEN [unlinked EXCEPT !.mem[next_next].prev_size =
                                U16(@ + st.mem[block].size + BBSize)]
                       ELSE unlinked
         IN [tagged EXCEPT !.mem[block].size =
                               U16(@ + BBSize + st.mem[next_block].size)]
    ELSE st

\* Smalloc::free
free(st, end, ptr) ==
    IF ptr = Null
    THEN st
    ELSE LET block == At(ptr) - BBSize
             prev_block == block - st.mem[block].prev_size - BBSize
             next_block == block + BBSize + st.mem[block].size
             first == free_prev(st, end, block, prev_block, next_block)
             second == free_next(first.st, end, first.block, next_block)
         IN install_free_block(second, Ptr(first.block))

\* The offsets met walking forward from the first block by each size.
RECURSIVE BlocksFrom(_, _, _)
BlocksFrom(mem, a, end) ==
    IF a < end /\ a \in DOMAIN mem
    THEN <<a>> \o BlocksFrom(mem, a + BBSize + mem[a].size, end)
    ELSE <<>>

\* The offsets met following the free list, at most fuel of them.
RECURSIVE ListFrom(_, _, _)
ListFrom(mem, p, fuel) ==
    IF /\ p # Null
       /\ At(p) \in DOMAIN mem
       /\ "next" \in DOMAIN mem[At(p)]
       /\ fuel > 0
    THEN <<At(p)>> \o ListFrom(mem, mem[At(p)].next, fuel - 1)
    ELSE <<>>

\* The structural invariants of the heap.
HeapBlocks == BlocksFrom(hmem, PSize, hsize)
FreeList == ListFrom(hmem, hhead, Len(HeapBlocks) + 1)

\* Walking forward reaches exactly the end of the region.
WalkReachesEnd ==
    LET bs == HeapBlocks
    IN /\ Len(bs) > 0
       /\ bs[Len(bs)] + BBSize + hmem[bs[Len(bs)]].size = hsize

\* Each prev-size tag, free bit aside, is the size of the block before.
PrevTagsMatch ==
    LET bs == HeapBlocks
    IN \A i \in 1..Len(bs) :
          (hmem[bs[i]].prev_size \div 2) * 2 =
              IF i = 1 THEN 0 ELSE hmem[bs[i - 1]].size

\* The blocks with the free bit set are the blocks of the free list.
FreeBitIffListed ==
    LET bs == HeapBlocks
        fl == FreeList
    IN /\ {bs[i] : i \in {j \in 1..Len(bs) : is_free(hmem[bs[j]])}} =
              {fl[i] : i \in 1..Len(fl)}
       /\ \A i, j \in 1..Len(fl) : i # j => fl[i] # fl[j]
       /\ \A i \in 1..Len(fl) :
             hmem[fl[i]].next = IF i = Len(fl) THEN Null ELSE Ptr(fl[i + 1])
       /\ Len(fl) = 0 <=> hhead = Null

\* The free list ascends in size, and in address among equal sizes.
FreeListSorted ==
    LET fl == FreeList
    IN \A i \in 1..(Len(fl) - 1) :
          \/ hmem[fl[i]].size < hmem[fl[i + 1]].size
          \/ /\ hmem[fl[i]].size = hmem[fl[i + 1]].size
             /\ fl[i] < fl[i + 1]

HeapInv ==
    /\ WalkReachesEnd
    /\ PrevTagsMatch
    /\ FreeBitIffListed
    /\ FreeListSorted

\* The allocator's state is the headers of the blocks that tile the region
\* (a BusyBlock has no next field); every other byte is payload.
Headers(mem, end) ==
    LET bs == BlocksFrom(mem, PSize, end)
    IN [a \in {bs[i] : i \in 1..Len(bs)} |-> mem[a]]

\* a.init()
HeapInit ==
    /\ ~inited
    /\ inited' = TRUE
    /\ hhead' = init(hsize).head
    /\ hmem' = init(hsize).mem
    /\ UNCHANGED <<hsize, live, ops, held, last_op, last_copy>>
    /\ UNCHANGED <<rvars, mvars, pvars, cvars, avars, uvars, fvars, svars>>

\* ptr = a.alloc(request); a non-null pointer is kept for a later free.
HeapAlloc(request) ==
    /\ inited
    /\ ops < MaxOps
    /\ Cardinality(live) < MaxLive
    /\ ops' = ops + 1
    /\ held' = HeapInv
    /\ LET r == alloc([head |-> hhead, mem |-> hmem], hsize, request)
       IN /\ hhead' = r.st.head
          /\ hmem' = Headers(r.st.mem, hsize)
          /\ live' = IF r.ret = Null THEN live ELSE live \cup {r.ret}
          /\ last_op' = [op |-> "alloc", request |-> request, ptr |-> r.ret,
                          block |-> IF r.ret = Null THEN 0
                                    ELSE At(r.ret) - BBSize,
                          s |-> IF r.ret = Null THEN 0
                                ELSE hmem[At(r.ret) - BBSize].size]
    /\ UNCHANGED <<hsize, inited, last_copy>>
    /\ UNCHANGED <<rvars, mvars, pvars, cvars, avars, uvars, fvars, svars>>

Alloc == \E request \in Requests : HeapAlloc(request)

\* a.free(ptr) of a pointer returned by alloc and not freed since.
HeapFree(ptr) ==
    /\ inited
    /\ ops < MaxOps
    /\ ops' = ops + 1
    /\ held' = HeapInv
    /\ LET st == free([head |-> hhead, mem |-> hmem], hsize, ptr)
       IN /\ hhead' = st.head
          /\ hmem' = Headers(st.mem, hsize)
    /\ live' = live \ {ptr}
    /\ last_op' = [op |-> "free", request |-> 0, ptr |-> ptr, block |-> 0,
                    s |-> 0]
    /\ UNCHANGED <<hsize, inited, last_copy>>
    /\ UNCHANGED <<rvars, mvars, pvars, cvars, avars, uvars, fvars, svars>>

Free == \E ptr \in live \cup {Null} : HeapFree(ptr)

\* The block headers that the bytes [from, to) lie on: a busy block's header
\* is a BusyBlock, a free block's a FreeBlock.
Overwritten(mem, from, to) ==
    {a \in DOMAIN mem :
        /\ a < to
        /\ a + (IF is_free(mem[a]) THEN FBSize ELSE BBSize) > from}

\* copy_nonoverlapping(ptr, new, old_size) in __rust_reallocate, on the heap
\* st that alloc left: what it was given and which headers it wrote on.
copy(st, end, ptr, new, old_size) ==
    LET room == st.mem[At(new) - BBSize].size
    IN [from |-> ptr, to |-> new, len |-> old_size, room |-> room,
        over |-> IF old_size <= room
                 THEN {}
                 ELSE Overwritten(Headers(st.mem, end),
                                  At(new) + room, At(new) + old_size)]

\* No copy has written on a header. After one that has, the headers named
\* hold bytes of the old payload and the allocator is not followed further.
Intact == last_copy.over = {}

\* The sizes that alloc serves with a block of payload room: those that
\* round up to it or leave less than a FreeBlock of it.
Served(room) ==
    {n \in Requests :
        /\ 1 <= n
        /\ RoundUp(n) <= room
        /\ room - RoundUp(n) < FBSize}

\* new = __rust_reallocate(ptr, old_size, size, _) of a live pointer, with
\* old_size a size its block was allocated for.
HeapRealloc(ptr, old_size, size) ==
    /\ inited
    /\ ops < MaxCalls
    /\ Intact
    /\ ops' = ops + 1
    /\ held' = HeapInv
    /\ LET r == alloc([head |-> hhead, mem |-> hmem], hsize, size)
           new == r.ret
       IN IF new = Null
          THEN /\ last_op' = [op |-> "realloc", request |-> size,
                              ptr |-> Null, block |-> 0, s |-> 0]
               /\ last_copy' = NoCopy
               /\ UNCHANGED <<hhead, hmem, live>>
          ELSE LET st == free(r.st, hsize, ptr)
               IN /\ hhead' = st.head
                  /\ hmem' = Headers(st.mem, hsize)
                  /\ live' = (live \ {ptr}) \cup {new}
                  /\ last_copy' = copy(r.st, hsize, ptr, new, old_size)
                  /\ last_op' = [op |-> "realloc", request |-> size,
                                  ptr |-> new, block |-> At(new) - BBSize,
                                  s |-> hmem[At(new) - BBSize].size]
    /\ UNCHANGED <<hsize, inited>>
    /\ UNCHANGED <<rvars, mvars, pvars, cvars, avars, uvars, fvars, svars>>

Realloc ==
    \E ptr \in live :
       \E old_size \in Served(hmem[At(ptr) - BBSize].size) :
          \E size \in Requests : HeapRealloc(ptr, old_size, size)

\* The calls of alloc and free made while no header has been written on.
AllocIntact == Intact /\ ops < MaxCalls /\ Alloc
FreeIntact == Intact /\ ops < MaxCalls /\ Free

\* ------------------------------------------------------------------------
\* Scheduler (bscheduler/lib.rs)
\* ------------------------------------------------------------------------

\* Number of Task objects, highest priority value, number of schedule()
\* calls explored.
MaxTasks == 3
MaxPrio == 2
MaxSched == 2

TaskObjs == 1..MaxTasks
Priorities == 0..MaxPrio

\* Scheduler::new() and the Task constructors: an empty list, each task
\* with its priority and a null next.
InitScheduler(priority) ==
    /\ sch_tasks = Null
    /\ task_priority = priority
    /\ task_next = [t \in TaskObjs |-> Null]
    /\ sch_pc = "idle"
    /\ sch_cur = Null
    /\ sch_calls = 0
    /\ added = <<>>
    /\ executed = <<>>
    /\ dropped = FALSE

\* The scheduler is made and never used.
InitSchedulerIdle == InitScheduler([t \in TaskObjs |-> 0])

\* The loop of add_task: past the tasks whose priority is not above the
\* new task's.
RECURSIVE add_task_loop(_, _, _, _)
add_task_loop(next, priority, cur, task) ==
    IF /\ next[cur] # Null
       /\ priority[next[cur][1]] <= priority[task]
    THEN add_task_loop(next, priority, next[cur][1], task)
    ELSE cur

\* Scheduler::add_task on the list st = [tasks, next]: the list afterwards.
sched_add_task(st, priority, task) ==
    LET first == st.tasks
    IN IF first = Null \/ priority[first[1]] > priority[task]
       THEN [tasks |-> <<task>>, next |-> st.next]
       ELSE LET cur == add_task_loop(st.next, priority, first[1], task)
            IN [tasks |-> st.tasks,
                next |-> [st.next EXCEPT ![task] = st.next[cur],
                                         ![cur] = <<task>>]]

\* The tasks given to add_task so far.
Added == {added[i] : i \in 1..Len(added)}

\* scheduler.add_task(&mut task) of a task not added before, called by
\* main or by the task that runs.
SchedAddTask(task) ==
    /\ sch_pc \in {"idle", "call"}
    /\ task \notin Added
    /\ LET st == sched_add_task([tasks |-> sch_tasks, next |-> task_next],
                                task_priority, task)
       IN /\ sch_tasks' = st.tasks
          /\ task_next' = st.next
    /\ added' = Append(added, task)
    /\ dropped' = (dropped \/ (sch_tasks # Null /\
                                task_priority[sch_tasks[1]] >
                                    task_priority[task]))
    /\ UNCHANGED <<task_priority, sch_pc, sch_cur, sch_calls, executed>>
    /\ UNCHANGED <<rvars, mvars, pvars, cvars, hvars, avars, uvars, fvars>>

SchedAdd == \E task \in TaskObjs : SchedAddTask(task)

\* main calls scheduler.schedule().
SchedStart ==
    /\ sch_pc = "idle"
    /\ sch_calls < MaxSched
    /\ sch_calls' = sch_calls + 1
    /\ sch_pc' = "loop"
    /\ UNCHANGED <<sch_tasks, task_priority, task_next, sch_cur, added,
                   executed, dropped>>
    /\ UNCHANGED <<rvars, mvars, pvars, cvars, hvars, avars, uvars, fvars>>

\* schedule(): `while let Some(task) = self.pop_task()`, and the call of
\* the task begins; on None schedule() returns.
SchedPop ==
    /\ sch_pc = "loop"
    /\ IF sch_tasks = Null
       THEN /\ sch_pc' = "idle"
            /\ UNCHANGED <<sch_tasks, sch_cur, executed>>
       ELSE /\ sch_tasks' = task_next[sch_tasks[1]]
            /\ sch_cur' = sch_tasks
            /\ executed' = Append(executed, sch_tasks[1])
            /\ sch_pc' = "call"
    /\ UNCHANGED <<task_priority, task_next, sch_calls, added, dropped>>
    /\ UNCHANGED <<rvars, mvars, pvars, cvars, hvars, avars, uvars, fvars>>

\* task.call() returns to the loop of schedule().
SchedReturn ==
    /\ sch_pc = "call"
    /\ sch_pc' = "loop"
    /\ UNCHANGED <<sch_tasks, task_priority, task_next, sch_cur, sch_calls,
                   added, executed, dropped>>
    /\ UNCHANGED <<rvars, mvars, pvars, cvars, hvars, avars, uvars, fvars>>

\* ------------------------------------------------------------------------
\* Specification: the reactor driving futures that share one mutex
\* ------------------------------------------------------------------------

Init ==
    /\ InitReactor
    /\ InitMutex
    /\ InitPromise
    /\ InitRing
    /\ InitSmalloc(HEAP_SIZE)
    /\ InitAdd
    /\ InitSchedulerIdle
    /\ InitUsart
    /\ InitFutures

Next ==
    \/ AddTask
    \/ StartRun
    \/ Select
    \/ ClearReady
    \/ Publish
    \/ Dispatch
    \/ TaskReturn
    \/ WaitForEvent
    \/ IsrSetReady
    \/ LockRegister
    \/ LockCas
    \/ ReleaseStore
    \/ ReleaseSwap
    \/ ReleaseWake
    \/ GiveToken
    \/ IsrReleaseStore
    \/ IsrReleaseSwap
    \/ IsrReleaseWake

Spec == Init /\ [][Next]_vars

\* ------------------------------------------------------------------------
\* Specification: the reactor driving futures that await one promise
\* ------------------------------------------------------------------------

NextPromise ==
    \/ AddTask
    \/ StartRun
    \/ Select
    \/ ClearReady
    \/ Publish
    \/ Dispatch
    \/ TaskReturn
    \/ WaitForEvent
    \/ IsrSetReady
    \/ PromiseNew
    \/ PromiseClaim
    \/ PromiseLoad
    \/ PromiseTake
    \/ Resolve
    \/ ResolveSwap
    \/ ResolveWake

SpecPromise == Init /\ [][NextPromise]_vars

\* ------------------------------------------------------------------------
\* Specification: a promise whose producer also resolves it unclaimed,
\* in a build with or without debug assertions
\* ------------------------------------------------------------------------

InitPromiseAny ==
    /\ InitReactorLoaded
    /\ InitMutex
    /\ empty
    /\ debug_assertions \in BOOLEAN
    /\ InitRing
    /\ InitSmalloc(HEAP_SIZE)
    /\ InitAdd
    /\ InitSchedulerIdle
    /\ InitUsart
    /\ InitFutures

NextPromiseAny ==
    \/ StartRun
    \/ Select
    \/ ClearReady
    \/ Publish
    \/ Dispatch
    \/ TaskReturn
    \/ WaitForEvent
    \/ PromiseNew
    \/ PromiseClaim
    \/ PromiseLoad
    \/ PromiseTake
    \/ Resolve
    \/ ResolveAgain
    \/ ResolveSwap
    \/ ResolveWake

SpecPromiseAny == InitPromiseAny /\ [][NextPromiseAny]_vars

\* ------------------------------------------------------------------------
\* Specification: the reactor with the outcome of every add_task recorded
\* ------------------------------------------------------------------------

NextAdd ==
    \/ AddTaskCall
    \/ StartRun
    \/ Select
    \/ ClearReady
    \/ Publish
    \/ Dispatch
    \/ TaskReturn
    \/ WaitForEvent

SpecAdd == Init /\ [][NextAdd]_vars

\* ------------------------------------------------------------------------
\* Specification: one task reading the Usart that a handler fills
\* ------------------------------------------------------------------------

InitLoaded ==
    /\ InitReactorLoaded
    /\ InitMutex
    /\ InitPromise
    /\ InitRing
    /\ InitSmalloc(HEAP_SIZE)
    /\ InitAdd
    /\ InitSchedulerIdle
    /\ InitUsart
    /\ InitFutures

NextUsartRx ==
    \/ StartRun
    \/ Select
    \/ ClearReady
    \/ Publish
    \/ Dispatch
    \/ TaskReturn
    \/ WaitForEvent
    \/ IsrSetReady
    \/ PollNextStore
    \/ PollNextPop
    \/ PollNextClear
    \/ IsrRxne

SpecUsartRx == InitLoaded /\ [][NextUsartRx]_vars

\* ------------------------------------------------------------------------
\* Specification: one task writing the Usart that a handler drains
\* ------------------------------------------------------------------------

NextUsartTx ==
    \/ StartRun
    \/ Select
    \/ ClearReady
    \/ Publish
    \/ Dispatch
    \/ TaskReturn
    \/ WaitForEvent
    \/ IsrSetReady
    \/ PollReadyStore
    \/ PollReadyCheck
    \/ PollReadyClear
    \/ StartSend
    \/ StartSendStore
    \/ StartSendEnable
    \/ StartSendReturn
    \/ PollFlushStore
    \/ PollFlushCheck
    \/ PollFlushClear
    \/ IsrTxe

SpecUsartTx == InitLoaded /\ [][NextUsartTx]_vars

\* ------------------------------------------------------------------------
\* Specification: one producer and one consumer on a CircularBuffer
\* ------------------------------------------------------------------------

NextRing ==
    \/ Push
    \/ PushLoadHead
    \/ PushWrite
    \/ PushStoreTail
    \/ PopLoadHead
    \/ PopLoadTail
    \/ PopRead
    \/ PopStoreHead

SpecRing == Init /\ [][NextRing]_vars

\* ------------------------------------------------------------------------
\* Specification: alloc and free on a Smalloc heap
\* ------------------------------------------------------------------------

InitHeap ==
    /\ InitReactor
    /\ InitMutex
    /\ InitPromise
    /\ InitRing
    /\ \E region \in Regions : InitSmalloc(region)
    /\ InitAdd
    /\ InitSchedulerIdle
    /\ InitUsart
    /\ InitFutures

NextHeap ==
    \/ HeapInit
    \/ Alloc
    \/ Free

SpecHeap == InitHeap /\ [][NextHeap]_vars

\* The main loop over the tasks main has added, with interrupt handlers
\* that set tasks ready and futures that only return.
MainLoop ==
    \/ StartRun
    \/ Select
    \/ ClearReady
    \/ Publish
    \/ Dispatch
    \/ TaskReturn
    \/ WaitForEvent

NextWake ==
    \/ MainLoop
    \/ IsrSetReady

SpecWake == InitLoaded /\ [][NextWake]_vars

\* The core executes the main thread whenever no handler runs; nothing is
\* assumed of the interrupts.
SpecWakeFair == SpecWake /\ WF_vars(MainLoop)

\* main() before its loop, at any point of the program's life: the tasks
\* of registered hold a future, the bits of ready are set, the event
\* register holds ev.
InitReactorAt(registered, ready, ev) ==
    /\ ready_mask = ready
    /\ current_task_mask = {}
    /\ tasks = [s \in Slots |-> IF s \in registered THEN "Some" ELSE None]
    /\ event = ev
    /\ pc = "setup"
    /\ task_id = 0
    /\ mask = {}
    /\ fut = [t \in TaskIds |-> IF t \in registered THEN "run" ELSE "absent"]
    /\ tpc = "body"
    /\ oredSince = ready
    /\ pollJustified = FALSE

InitQuiet ==
    /\ \E registered \in SUBSET TaskIds, ready \in SUBSET TaskIds,
          ev \in BOOLEAN : InitReactorAt(registered, ready, ev)
    /\ InitMutex
    /\ InitPromise
    /\ InitRing
    /\ InitSmalloc(HEAP_SIZE)
    /\ InitAdd
    /\ InitSchedulerIdle
    /\ InitUsart
    /\ InitFutures

\* Every future returns Pending and sets nothing ready.
ReturnPending == Return("NotReady")

\* The main loop while no handler and no task sets a task ready.
NextQuiet ==
    \/ StartRun
    \/ Select
    \/ ClearReady
    \/ Publish
    \/ Dispatch
    \/ ReturnPending
    \/ WaitForEvent

SpecQuiet == InitQuiet /\ [][NextQuiet]_vars
SpecQuietFair == SpecQuiet /\ WF_vars(NextQuiet)

\* The list-based scheduler with tasks of any priorities.
InitSched ==
    /\ InitReactor
    /\ InitMutex
    /\ InitPromise
    /\ InitRing
    /\ InitSmalloc(HEAP_SIZE)
    /\ InitAdd
    /\ \E priority \in [TaskObjs -> Priorities] : InitScheduler(priority)
    /\ InitUsart
    /\ InitFutures

NextSched ==
    \/ SchedAdd
    \/ SchedStart
    \/ SchedPop
    \/ SchedReturn

SpecSched == InitSched /\ [][NextSched]_vars

\* The allocator behind the Rust allocation hooks of linkmem.
NextLinkmem ==
    \/ HeapInit
    \/ AllocIntact
    \/ FreeIntact
    \/ Realloc

\* linkmem::init is given the kernel's heap; the smallest region of the
\* tests stands for a heap that is nearly full.
InitLinkmem ==
    /\ InitReactor
    /\ InitMutex
    /\ InitPromise
    /\ InitRing
    /\ \E region \in {SmallRegion, HEAP_SIZE} : InitSmalloc(region)
    /\ InitAdd
    /\ InitSchedulerIdle
    /\ InitUsart
    /\ InitFutures

SpecLinkmem == InitLinkmem /\ [][NextLinkmem]_vars

\* StartSendAllString over a sink that answers anything.
InitSendString ==
    /\ InitReactor
    /\ InitMutex
    /\ InitPromise
    /\ InitRing
    /\ InitSmalloc(HEAP_SIZE)
    /\ InitAdd
    /\ InitSchedulerIdle
    /\ InitUsart
    /\ \E string \in Strings : new_string(string, 0)
    /\ new_stream(<<>>)
    /\ new_send_all
    /\ new_take_until(0, <<>>)

NextSendString ==
    \/ SendStringPoll
    \/ SendStringLoop
    \/ SendStringReady
    \/ SendStringSend
    \/ SendStringInc

SpecSendString == InitSendString /\ [][NextSendString]_vars

\* StartSendAllString over the Usart sink, polled by the reactor as task
\* ss_task while the TXE handler drains the writer buffer.

\* poll: the loop test holds and poll_ready is entered.
SenderPollReady ==
    /\ task_id = ss_task
    /\ ss_cur < Len(ss_string)
    /\ PollReadyStore

\* poll: start_send(item) after Ready(Ok(())).
SenderStartSend ==
    /\ task_id = ss_task
    /\ StartSendPush(ss_item(ss_string, ss_cur))

\* poll: `this.cur += 1` after start_send returned Ok(()).
SenderInc ==
    /\ task_id = ss_task
    /\ SentReturn(ss_cur + 1, Append(sink_got, ss_item(ss_string, ss_cur)))

\* poll: the loop test fails, Poll::Ready(Ok(sink)).
SenderDone ==
    /\ task_id = ss_task
    /\ ss_cur = Len(ss_string)
    /\ Return("Ready")

\* The other tasks return from their polls without touching the channel.
OtherReturn ==
    /\ task_id # ss_task
    /\ TaskReturn

InitSendUsart ==
    /\ InitReactorLoaded
    /\ InitMutex
    /\ InitPromise
    /\ InitRing
    /\ InitSmalloc(HEAP_SIZE)
    /\ InitAdd
    /\ InitSchedulerIdle
    /\ InitUsart
    /\ \E string \in Strings \ {<<>>} :
       \E id \in TaskIds : new_string(string, id)
    /\ new_stream(<<>>)
    /\ new_send_all
    /\ new_take_until(0, <<>>)

\* The steps of the main thread.
MainSendUsart ==
    \/ StartRun
    \/ Select
    \/ ClearReady
    \/ Publish
    \/ Dispatch
    \/ WaitForEvent
    \/ OtherReturn
    \/ SenderPollReady
    \/ PollReadyCheck
    \/ PollReadyClear
    \/ SenderStartSend
    \/ StartSendStore
    \/ StartSendEnable
    \/ SenderInc
    \/ SenderDone

NextSendUsart ==
    \/ StartRun
    \/ Select
    \/ ClearReady
    \/ Publish
    \/ Dispatch
    \/ WaitForEvent
    \/ OtherReturn
    \/ SenderPollReady
    \/ PollReadyCheck
    \/ PollReadyClear
    \/ SenderStartSend
    \/ StartSendStore
    \/ StartSendEnable
    \/ SenderInc
    \/ SenderDone
    \/ IsrTxe

SpecSendUsart == InitSendUsart /\ [][NextSendUsart]_vars

\* The core keeps executing the main thread, and the transmitter raises TXE
\* again and again while the interrupt is enabled.
SpecSendUsartFair ==
    /\ SpecSendUsart
    /\ WF_vars(MainSendUsart)
    /\ WF_vars(IsrTxe)

\* StartSendAll between a stream of up to MaxStr items and a sink that
\* answers anything.
InitSendAll ==
    /\ InitReactor
    /\ InitMutex
    /\ InitPromise
    /\ InitRing
    /\ InitSmalloc(HEAP_SIZE)
    /\ InitAdd
    /\ InitSchedulerIdle
    /\ InitUsart
    /\ new_string(<<>>, 0)
    /\ \E items \in Strings : new_stream(items)
    /\ new_send_all
    /\ new_take_until(0, <<>>)

NextSendAll ==
    \/ SendAllPoll
    \/ SendAllTake
    \/ SendAllReady
    \/ SendAllSend
    \/ SendAllNext

SpecSendAll == InitSendAll /\ [][NextSendAll]_vars

\* TakeUntil over a stream of up to MaxStr bytes, for every buffer length
\* up to MaxBuf and every array of delimiters.
InitTakeUntil ==
    /\ InitReactor
    /\ InitMutex
    /\ InitPromise
    /\ InitRing
    /\ InitSmalloc(HEAP_SIZE)
    /\ InitAdd
    /\ InitSchedulerIdle
    /\ InitUsart
    /\ new_string(<<>>, 0)
    /\ \E items \in Strings : new_stream(items)
    /\ new_send_all
    /\ \E len \in 0..MaxBuf :
       \E delimiters \in MatchArrays : new_take_until(len, delimiters)

NextTakeUntil ==
    \/ TakeUntilPoll
    \/ TakeUntilLoop
    \/ TakeUntilNext
    \/ TakeUntilMatches

SpecTakeUntil == InitTakeUntil /\ [][NextTakeUntil]_vars

\* ------------------------------------------------------------------------
\* Properties of the reactor and the mutex
\* ------------------------------------------------------------------------

\* Number of live MutexLock tokens.
MutexTokens == Cardinality(tokens) + (IF isr_token THEN 1 ELSE 0)

\* The main thread takes the LockCas step.
LockCasStep == MainRuns /\ pc = "poll" /\ tpc = "lk_cas" /\ tpc' = "body"

\* C1: at most one MutexLock exists at any time, and while one exists the
\* owner word is non-zero, so that the compare-and-swap of every other
\* lock poll fails and that poll returns Pending.
C1_MutualExclusion ==
    /\ MutexTokens <= 1
    /\ MutexTokens = 1 => ~MutexLocked(owner)

\* A task holds the lock while another task's lock poll returned Pending.
C1_Witness == tokens # {} /\ blocked # {} /\ blocked \cap tokens = {}

\* C2: the id the run loop selected is a bit of the mask it loaded and no
\* bit of that mask is higher.
C2_SelectsHighest ==
    pc = "clear" => task_id \in mask /\ \A b \in mask : b <= task_id

\* The run loop selected among two or more ready tasks.
C2_Witness == pc = "clear" /\ Cardinality(mask) >= 2 /\ task_id = MaxOf(mask)

\* C3: whenever the run loop polls a task, the task's bit had been ORed
\* into ready_mask after the run loop last cleared it; this holds for
\* every poll, so in particular for the polls that follow a Pending.
C3_RepolledOnlyAfterOr == pc = "poll" => pollJustified

\* A task whose lock poll returned Pending is polled again.
C3_Witness ==
    pc = "poll" /\ tpc = "body" /\ fut[task_id] = "want" /\ pollJustified

\* The run loop leaves Dispatch.
DispatchStep == MainRuns /\ pc = "dispatch" /\ pc' # "dispatch"

\* C4: a slot is empty exactly when no unfinished computation is
\* registered under its id, a computation that returned Done or Failed is
\* never polled, and a selected empty slot sends the run loop back to
\* selection with the slots, the futures and ready_mask unchanged.
C4_FinishedNeverPolled ==
    /\ [](/\ \A t \in TaskIds :
                tasks[t] = None <=> fut[t] \in {"absent", "done"}
          /\ pc = "poll" => fut[task_id] \notin {"absent", "done"})
    /\ [][DispatchStep /\ tasks[task_id] = None =>
            /\ pc' = "select"
            /\ UNCHANGED <<tasks, fut, ready_mask, current_task_mask>>]_vars

\* The run loop selected the bit of a finished task while another task
\* is ready.
C4_Witness ==
    /\ pc = "dispatch"
    /\ fut[task_id] = "done"
    /\ tasks[task_id] = None
    /\ ready_mask # {}

\* A release reaches its set_ready_task_mask call.
TaskWakeStep == MainRuns /\ pc = "poll" /\ tpc = "rl_wake" /\ tpc' = "body"
IsrWakeStep == ipc = "wake" /\ ipc' = "idle"

\* C8: the mask a release passes to set_ready_task_mask is exactly the
\* set of tasks whose lock poll registered (OR into wait_task_mask) since
\* the previous release drained the mask; those bits and no others are
\* added to ready_mask, and wait_task_mask is zero when release returns.
C8_ReleaseWakesRegistered ==
    [][/\ TaskWakeStep =>
            /\ rel_tasks = drained
            /\ ready_mask' = ready_mask \cup drained
            /\ wait_task_mask' = {}
       /\ IsrWakeStep =>
            /\ isr_tasks = drained
            /\ ready_mask' = ready_mask \cup drained
            /\ wait_task_mask' = {}]_vars

\* A release is about to wake two or more registered tasks.
C8_Witness ==
    /\ pc = "poll"
    /\ tpc = "rl_wake"
    /\ Cardinality(rel_tasks) >= 2
    /\ rel_tasks = drained

\* The run loop has cleared the bit of t and is about to poll it.
AboutToPoll(t) == pc \in {"publish", "dispatch"} /\ task_id = t

\* A release has stored 0 to owner and has not yet drained the wait mask.
ReleaseBeforeSwap == (pc = "poll" /\ tpc = "rl_swap") \/ ipc = "swap"

\* C10: a task whose lock poll returned Pending is never forgotten: until
\* it is polled again its bit is in ready_mask, or in the mask a release
\* is about to pass to set_ready_task_mask, or in wait_task_mask with a
\* MutexLock still to be dropped (or its release about to drain the mask).
\* The bits of wait_task_mask are exactly the registrations not yet
\* drained, so one registration is drained by one release.
C10_NoLostWake ==
    /\ \A t \in blocked :
          \/ t \in ready_mask
          \/ AboutToPoll(t)
          \/ pc = "poll" /\ tpc = "rl_wake" /\ t \in rel_tasks
          \/ ipc = "wake" /\ t \in isr_tasks
          \/ t \in wait_task_mask /\ (MutexTokens = 1 \/ ReleaseBeforeSwap)
    /\ wait_task_mask = polledSince
    /\ (pc = "poll" /\ tpc = "rl_wake") => wait_task_mask = {}
    /\ ipc = "wake" => wait_task_mask \cap isr_tasks = {}

\* An interrupt handler releases between the two steps of a lock poll
\* while another task is blocked, and is about to wake both.
C10_Witness ==
    /\ ipc = "wake"
    /\ pc = "poll"
    /\ tpc = "lk_cas"
    /\ blocked # {}
    /\ blocked \cup {task_id} \subseteq isr_tasks

\* The claim of C9 as it stands: after any release that found tasks
\* blocked, if no task above the highest blocked one is ready when the
\* run loop next selects, the task it selects is the highest blocked one
\* and its lock poll returns the MutexLock.
C9_Original ==
    /\ [](rel.phase = "picked" /\ Selected => task_id = rel.top)
    /\ [][LockCasStep /\ rel.phase = "picked" => task_id \in tokens']_vars

\* C9 (amended): after a release that found tasks blocked, provided no
\* lock poll completes between the release and the run loop's next
\* selection, and no task above the highest blocked one is ready at
\* that selection, the selected task is the highest blocked one
\* and its lock poll returns the MutexLock; and every lock poll
\* completing while a MutexLock is live leaves the polling task
\* registered in wait_task_mask and returns Pending.
C9_HighestWaiterWins ==
    /\ [](rel.phase = "picked" /\ rel.clean /\ Selected => task_id = rel.top)
    /\ [][LockCasStep /\ rel.phase = "picked" /\ rel.clean =>
            task_id = rel.top /\ task_id \in tokens']_vars
    /\ [][LockCasStep /\ MutexTokens = 1 =>
            /\ task_id \in wait_task_mask'
            /\ task_id \in blocked'
            /\ task_id \notin tokens'
            /\ pc' = "select"]_vars

\* After a release that found two tasks blocked, the run loop has picked
\* the higher one, which has registered and is about to swap itself into
\* the free owner word.
C9_Witness ==
    /\ rel.phase = "picked"
    /\ rel.clean
    /\ pc = "poll"
    /\ tpc = "lk_cas"
    /\ task_id = rel.top
    /\ owner = {}
    /\ \E lo \in blocked : lo < task_id

\* ------------------------------------------------------------------------
\* Properties of the promise
\* ------------------------------------------------------------------------

\* The consumer takes the first or the second step of Promise::poll.
PromiseLoadStep ==
    MainRuns /\ InBody /\ fut[task_id] = "await" /\ (pc' # pc \/ tpc' # tpc)
PromiseTakeStep == MainRuns /\ pc = "poll" /\ tpc = "pr_take" /\ tpc' # tpc

\* resolve has replaced the owner word by 0.
SwapDone == ~armed /\ rpc # "swap"

\* C5: a poll that loads the owner word before resolve has swapped it
\* returns Pending; a poll that loads it afterwards takes the value, and
\* the value it returns is exactly the one passed to resolve (Ok or Err);
\* poll never finds the cell empty.
C5_PollReturnsResolved ==
    /\ [](got \notin {NoResult, NotReady} => got = sent)
    /\ [](pc # "panic" /\ rpc # "panic")
    /\ [][PromiseLoadStep /\ ~SwapDone => pc' = "select" /\ got' = NotReady]_vars
    /\ [][PromiseLoadStep /\ SwapDone => tpc' = "pr_take"]_vars
    /\ [][PromiseTakeStep => got' = sent /\ sent \in Results]_vars

\* A promise that was polled while pending has delivered an error value.
C5_Witness ==
    /\ got \in Results
    /\ got[1] = "Err"
    /\ got = sent
    /\ p_result = NoResult
    /\ p_task = {}

\* ------------------------------------------------------------------------
\* Properties of the CircularBuffer
\* ------------------------------------------------------------------------

\* C6: whatever the interleaving of the loads and stores of the producer's
\* pushes with those of the consumer's pops, the values returned by the
\* successful pops are a prefix of the values accepted by the successful
\* pushes: first in first out, nothing lost, nothing twice, nothing read
\* before it was written.
C6_PoppedIsPrefix ==
    /\ Len(popped) <= Len(pushed)
    /\ \A i \in 1..Len(popped) : popped[i] = pushed[i]

\* The consumer has been round the array and its last two values differ,
\* while a push is between its write and its store of tail.
C6_Witness ==
    /\ Len(popped) >= RingLen
    /\ popped[Len(popped)] # popped[Len(popped) - 1]
    /\ ppc = "store"
    /\ cpc = "idle"

\* ------------------------------------------------------------------------
\* Properties of Smalloc
\* ------------------------------------------------------------------------

\* The region is one that init makes a single block of.
OneBlockRegion == hsize <= PSize + BBSize + MAX_ALLOC

ResolveSwapStep == rpc = "swap" /\ rpc' = "wake"
ResolveWakeStep == rpc = "wake" /\ rpc' # rpc

\* C11: a resolve that follows a claim reads a non-zero owner word and
\* passes the assertion; a resolve with no claim since construction or
\* since the previous resolve reads the owner word as 0, trips the debug
\* assertion where the build keeps it, and in either build sets no bit of
\* ready_mask and signals no event.
C11_SecondResolveTrips ==
    /\ [][ResolveSwapStep /\ r_legal => r_task' # {}]_vars
    /\ [][ResolveSwapStep /\ ~r_legal => r_task' = {}]_vars
    /\ [][ResolveWakeStep /\ r_legal => rpc' = "idle"]_vars
    /\ [][ResolveWakeStep /\ ~r_legal =>
            /\ ready_mask' = ready_mask
            /\ event' = event
            /\ (debug_assertions => rpc' = "panic")]_vars

\* A second resolve of a promise that was claimed once has tripped the
\* assertion after the first one woke its task.
C11_Witness ==
    /\ rpc = "panic"
    /\ ~r_legal
    /\ sent \in Results
    /\ p_result # sent

\* ------------------------------------------------------------------------
\* Promise: owner word and value cell
\* ------------------------------------------------------------------------

\* The promise has never been claimed: it is as Promise::empty() made it.
NeverClaimed == ~armed /\ sent = NoResult /\ rpc = "idle"

Serving(k) == task_id = k /\ pc \in {"clear", "publish", "dispatch", "poll"}

\* resolve has returned and the value waits in the cell for task k.
ResolvedFor(k) == fut[k] = "await" /\ ~armed /\ rpc = "idle"

\* C13: a claimed promise carries the bit of the task k that claimed it;
\* the producer's resolve reads that mask and ORs it into ready_mask, with
\* the event signalled; from then on bit k stays set until the run loop
\* selects task k, and the poll of the promise the run loop then makes for
\* task k takes the value passed to resolve.
C13_ResolveWakesClaimer ==
    /\ [](armed \/ rpc = "swap" =>
            \E k \in TaskIds : p_task = unsafe_new(k) /\ fut[k] = "await")
    /\ [][ResolveSwapStep => r_task' = p_task]_vars
    /\ [][ResolveWakeStep =>
            /\ r_task # {}
            /\ r_task \subseteq ready_mask'
            /\ event']_vars
    /\ [](\A k \in TaskIds :
            ResolvedFor(k) => k \in ready_mask \/ Serving(k))
    /\ [][PromiseLoadStep /\ ResolvedFor(task_id) => tpc' = "pr_take"]_vars
    /\ [][PromiseTakeStep =>
            got' = sent /\ sent \in Results /\ fut'[task_id] = "run"]_vars

\* The producer has resolved the promise of the highest task with an Ok
\* value; the task has not been polled yet and its ready bit is set.
C13_Witness ==
    /\ ResolvedFor(MaxId)
    /\ MaxId \in ready_mask
    /\ ~Serving(MaxId)
    /\ p_result = <<"Ok", MaxVal>>
    /\ sent = p_result

\* ------------------------------------------------------------------------
\* Reactor::add_task
\* ------------------------------------------------------------------------

AddTaskStep == add_calls' # add_calls

\* C14: add_task(id, f) with id < 32 and an empty slot returns true, puts f
\* into slot id, leaves the other slots alone and sets bit id (and no other
\* bit) in ready_mask; with id >= 32 or an occupied slot it returns false
\* and leaves every slot and ready_mask as they were.
C14_AddTask ==
    [][AddTaskStep =>
        IF add_id' < 32 /\ tasks[add_id'] = None
        THEN /\ add_ret' = TRUE
             /\ tasks' = [tasks EXCEPT ![add_id'] = add_f']
             /\ ready_mask' = ready_mask \cup {add_id'}
        ELSE /\ add_ret' = FALSE
             /\ tasks' = tasks
             /\ ready_mask' = ready_mask]_vars

\* add_task has succeeded on a slot, then failed on the same slot while it
\* was occupied, and also failed for the id 32.
C14_Witness ==
    /\ add_calls >= 3
    /\ add_id = NSlots
    /\ add_ret = FALSE
    /\ \E id \in TaskIds : tasks[id] = "g"

\* ------------------------------------------------------------------------
\* Reactor: current_task_mask
\* ------------------------------------------------------------------------

\* The statement of C15 as written: inside a poll the word holds the bit of
\* the polled task; before run(), between two polls and after run() has
\* returned it is zero.
C15_Original ==
    /\ pc = "poll" => current_task_mask = {task_id}
    /\ pc \in {"setup", "select", "wfe"} => current_task_mask = {}

\* C15: current_task_mask never has more than one bit set; from the store
\* in run() until the poll returns it holds exactly the bit of the task
\* being advanced; only that store changes it, so it is zero before the
\* first store and afterwards keeps the bit of the task polled last,
\* between polls and after run() has returned.
C15_MaskOfLastPolledTask ==
    /\ [](Cardinality(current_task_mask) <= 1)
    /\ [](pc \in {"dispatch", "poll"} => current_task_mask = {task_id})
    /\ [][current_task_mask' # current_task_mask =>
            pc = "publish" /\ current_task_mask' = {task_id}]_vars
    /\ [][current_task_mask # {} => current_task_mask' # {}]_vars

\* run() has returned after a task finished, and the word still holds the
\* bit of that task.
C15_Witness ==
    /\ pc = "wfe"
    /\ \E k \in TaskIds :
          /\ current_task_mask = {k}
          /\ fut[k] = "done"
          /\ tasks[k] = None

\* ------------------------------------------------------------------------
\* Reactor: who clears ready bits
\* ------------------------------------------------------------------------

ClearReadyStep == pc = "clear" /\ pc' = "publish"

\* C16: the only step that removes a bit from ready_mask is the fetch_and
\* of the run loop, and it removes exactly the bit of the task selected for
\* the coming poll, leaving every other bit as it was; every other step
\* that changes ready_mask (add_task, set_ready_task_mask from a handler,
\* the wake of a mutex release by a task or a handler) only adds bits.
C16_OnlyRunLoopClears ==
    /\ [][ClearReadyStep =>
            /\ task_id \notin ready_mask'
            /\ ready_mask' \cup {task_id} = ready_mask \cup {task_id}]_vars
    /\ [][~ClearReadyStep => ready_mask \subseteq ready_mask']_vars

\* The run loop has cleared the bit of the selected task while two other
\* bits stay set, one of them set by a mutex release.
C16_Witness ==
    /\ pc = "publish"
    /\ task_id \notin ready_mask
    /\ Cardinality(ready_mask) >= 2
    /\ drained # {}

\* ------------------------------------------------------------------------
\* CircularBuffer: emptiness and capacity
\* ------------------------------------------------------------------------

\* Neither push nor pop is under way.
Quiescent == ppc = "idle" /\ cpc = "idle"

\* Elements pushed and not yet popped.
Fill == Len(pushed) - Len(popped)

PopCheckStep == cpc = "load_tail" /\ cpc' # cpc
PushCheckStep == ppc = "load_head" /\ ppc' # ppc

\* C17: with no push and no pop under way, was_empty() is true exactly
\* when as many pops as pushes have succeeded, the state after new()
\* included; a pop whose test runs while no push is under way returns
\* None exactly in those states.
C17_WasEmpty ==
    /\ [](Quiescent => (was_empty <=> Len(popped) = Len(pushed)))
    /\ [](Quiescent /\ pushed = <<>> => was_empty)
    /\ [][PopCheckStep /\ ppc = "idle" =>
            (cpc' = "idle" <=> Len(popped) = Len(pushed))]_vars

\* Pushes and pops have gone once round the array and the buffer is empty
\* again, with the indices away from 0.
C17_Witness ==
    /\ Quiescent
    /\ was_empty
    /\ head # 0
    /\ Len(pushed) > RingLen
    /\ Len(popped) = Len(pushed)

\* C18: head and tail stay inside [0, N); at most N-1 elements are held;
\* a push fails exactly when (tail + 1) mod N equals head, which is exactly
\* when N-1 elements are held: from the empty buffer N-1 pushes in a row
\* succeed and the next one returns false.
C18_Capacity ==
    /\ [](head \in 0..(RingLen - 1) /\ tail \in 0..(RingLen - 1))
    /\ [](Fill \in 0..(RingLen - 1))
    /\ [](popped = <<>> => Len(pushed) <= RingLen - 1)
    /\ [][PushCheckStep =>
            /\ ppc' = "idle" <=> (tail + 1) % RingLen = head
            /\ ppc' = "idle" <=> Fill = RingLen - 1]_vars

\* N-1 pushes in a row have filled the buffer from empty and the next push
\* is about to compare the indices.
C18_Witness ==
    /\ popped = <<>>
    /\ Len(pushed) = RingLen - 1
    /\ ppc = "load_head"
    /\ (tail + 1) % RingLen = head

\* ------------------------------------------------------------------------
\* Usart: no wake-up is lost
\* ------------------------------------------------------------------------

IsrRxPushStep == Len(reader_buffer') > Len(reader_buffer)
PollNextPopStep == pc = "poll" /\ tpc = "rd_pop" /\ tpc' # tpc

\* C19: poll_next returns Pending only on an empty reader buffer, and from
\* then until the task calls poll_next again reader_task_mask holds the
\* task's mask and the buffer stays empty, so that the next byte the
\* handler pushes ORs the task's bit into ready_mask and signals the
\* event; a byte pushed between poll_next's store and its pop into a
\* buffer that was empty is the byte that pop returns, and poll_next then
\* clears the mask and returns Ready.
C19_ReaderWakeNotLost ==
    /\ [](rd_parked # {} =>
            /\ reader_task_mask = rd_parked
            /\ reader_buffer = <<>>
            /\ Cardinality(rd_parked) = 1)
    /\ [][IsrRxPushStep /\ rd_parked # {} =>
            /\ rd_parked \subseteq ready_mask'
            /\ event']_vars
    /\ [][PollNextPopStep /\ pc' = "select" =>
            reader_buffer = <<>> /\ rd_parked' = current_task_mask]_vars
    /\ [][PollNextPopStep /\ rd_was_empty /\ rd_since # <<>> =>
            /\ tpc' = "rd_clear"
            /\ rd_item' = <<Head(rd_since)>>]_vars

\* The handler has pushed a byte while the reading task was parked and the
\* main thread waited for an event: the task's bit is set.
C19_Witness ==
    /\ pc = "wfe"
    /\ event
    /\ rd_owner # {}
    /\ rd_owner \subseteq ready_mask
    /\ reader_buffer # <<>>
    /\ reader_task_mask = {}
    /\ rd_parked = {}

IsrTxPopStep == Len(writer_buffer') < Len(writer_buffer)
WriterCheckStep == pc = "poll" /\ tpc \in {"wr_check", "fl_check"} /\ tpc' # tpc

\* The statement of C20 as written: after poll_ready or poll_flush has
\* returned Pending to a task, the next byte the handler pops leaves the
\* task's bit set in ready_mask.
C20_Original ==
    [][IsrTxPopStep /\ wr_parked # {} => wr_parked \subseteq ready_mask']_vars

\* C20: poll_ready returns Pending only on a full writer buffer and
\* poll_flush only on a non-empty one, with the TXE interrupt enabled. If
\* the handler popped no byte between the poll's store and its test,
\* writer_task_mask holds the task's mask until the task polls the channel
\* again, and the next byte the handler pops ORs the task's bit into
\* ready_mask and signals the event. If it did, which only poll_flush can
\* answer with Pending, that pop has swapped the mask to 0 and ORed the
\* task's bit, which is set when poll_flush returns.
C20_WriterWakeNotLost ==
    /\ [](wr_parked # {} =>
            /\ writer_buffer # <<>>
            /\ txe
            /\ Cardinality(wr_parked) = 1
            /\ IF wr_early THEN writer_task_mask = {}
               ELSE writer_task_mask = wr_parked)
    /\ [][IsrTxPopStep /\ wr_parked # {} /\ ~wr_early =>
            /\ wr_parked \subseteq ready_mask'
            /\ event']_vars
    /\ [][WriterCheckStep /\ pc' = "select" =>
            /\ wr_parked' = current_task_mask
            /\ tpc = "wr_check" =>
                  Len(writer_buffer) = UsartLen - 1 /\ ~wr_early
            /\ tpc = "fl_check" => Len(writer_buffer) > 0
            /\ wr_early => current_task_mask \subseteq ready_mask]_vars
    /\ [](pc # "panic")

\* The handler has popped a byte from the full buffer while the writing
\* task was parked and the main thread waited for an event: the task's bit
\* is set.
C20_Witness ==
    /\ pc = "wfe"
    /\ event
    /\ wr_owner # {}
    /\ wr_owner \subseteq ready_mask
    /\ Len(writer_buffer) = UsartLen - 2
    /\ writer_task_mask = {}
    /\ wr_parked = {}
    /\ txe

\* ------------------------------------------------------------------------
\* Usart: start_send after poll_ready
\* ------------------------------------------------------------------------

StartSendPushStep == pc = "poll" /\ tpc = "send_push" /\ (tpc' # tpc \/ pc' # pc)
StartSendEnableStep == pc = "poll" /\ tpc = "send_enable" /\ tpc' # tpc

\* C21: from the Ready of poll_ready to the push of start_send the writer
\* buffer is never full, whatever the handler pops in between; the push
\* appends the byte and returns true, start_send goes on to enable the TXE
\* interrupt, and the panic of start_send is never reached.
C21_StartSendFindsSpace ==
    /\ [](pc = "poll" /\ tpc \in {"wr_clear", "send_push"} =>
            Len(writer_buffer) < UsartLen - 1)
    /\ [][StartSendPushStep =>
            /\ tpc' = "send_store"
            /\ pc' = "poll"
            /\ Len(writer_buffer') = Len(writer_buffer) + 1]_vars
    /\ [][StartSendEnableStep => txe' /\ tpc' = "sent"]_vars
    /\ [](pc = "panic" => FALSE)

\* start_send has filled the buffer again after the handler popped a byte
\* inside the poll_ready that preceded it.
C21_Witness ==
    /\ pc = "poll"
    /\ tpc = "body"
    /\ wr_early
    /\ txe
    /\ Len(writer_buffer) = UsartLen - 1

\* ------------------------------------------------------------------------
\* StartSendAllString
\* ------------------------------------------------------------------------

\* The first n elements of s.
Prefix(s, n) == SubSeq(s, 1, n)

SendStringReadyStep == ss_pc = "poll_ready" /\ ss_pc' # ss_pc
SendStringSendStep == ss_pc = "start_send" /\ ss_pc' # ss_pc

\* C24: the items handed to the sink are always the first bytes of the
\* string, in order and once each, whatever poll_ready answers in whatever
\* poll; cur counts the bytes whose start_send returned Ok and moves only
\* after such a send; poll returns Ok with the sink taken exactly when cur
\* has reached the length, every byte then handed over; and an Err of
\* poll_ready or of start_send is what poll returns, at once.
C24_SendsStringOnce ==
    /\ [](/\ ss_cur <= Len(ss_string)
          /\ Len(sink_got) <= Len(ss_string)
          /\ sink_got = Prefix(ss_string, Len(sink_got))
          /\ Len(sink_got) =
                IF ss_pc = "inc" \/ (ss_pc = "done" /\ ss_ret = "Err"
                                     /\ Len(sink_got) > ss_cur)
                THEN ss_cur + 1 ELSE ss_cur
          /\ ss_ret = "Ok" <=> (ss_pc = "done" /\ ~ss_sink)
          /\ ss_ret = "Ok" => ss_cur = Len(ss_string) /\ sink_got = ss_string
          /\ ss_pc = "done" => ss_ret \in {"Ok", "Err"})
    /\ [][ss_cur' # ss_cur =>
            /\ ss_cur' = ss_cur + 1
            /\ Len(sink_got) = ss_cur'
            /\ sink_got' = sink_got]_vars
    /\ [][SendStringSendStep =>
            /\ sink_got' = Append(sink_got, ss_string[ss_cur + 1])
            /\ ss_pc' = "done" <=> ss_ret' = "Err"]_vars
    /\ [][SendStringReadyStep =>
            /\ sink_got' = sink_got
            /\ ss_pc' = "done" <=> ss_ret' = "Err"
            /\ ss_ret' = "Pending" => ss_pc' = "start" /\ ss_cur' = ss_cur]_vars

\* The whole of a string of MaxStr bytes, no two equal neighbours, has been
\* handed over and poll has returned Ok.
C24_Witness ==
    /\ ss_ret = "Ok"
    /\ ss_cur = MaxStr
    /\ Len(ss_string) = MaxStr
    /\ sink_got = ss_string
    /\ \A i \in 1..(MaxStr - 1) : ss_string[i] # ss_string[i + 1]

\* ------------------------------------------------------------------------
\* StartSendAllString into the Usart
\* ------------------------------------------------------------------------

\* C22: the bytes put to the data register are always the first bytes of
\* the string, in order; the writer buffer holds exactly the bytes accepted
\* and not yet put, never more than UsartLen - 1 of them, and poll_ready
\* answers Pending exactly when it holds that many; the parked sender has its
\* bit set by the next pop; and with the main thread and the TXE handler
\* both running on, the whole string is eventually put to the data register
\* and the future completes.
C22_BackPressure ==
    /\ [](/\ dr_log \o writer_buffer = Prefix(ss_string, Len(sink_got)
                        + (IF pc = "poll" /\ task_id = ss_task
                              /\ tpc \in {"send_store", "send_enable", "sent"}
                           THEN 1 ELSE 0))
          /\ sink_got = Prefix(ss_string, ss_cur)
          /\ Len(writer_buffer) <= UsartLen - 1
          /\ wr_parked # {} => wr_parked = unsafe_new(ss_task))
    /\ [][WriterCheckStep /\ pc' = "select" =>
            Len(writer_buffer) = UsartLen - 1]_vars
    /\ [][WriterCheckStep /\ pc' # "select" =>
            Len(writer_buffer) < UsartLen - 1]_vars
    /\ [][IsrTxPopStep /\ wr_parked # {} /\ ~wr_early =>
            ss_task \in ready_mask']_vars
    /\ <>[](dr_log = ss_string /\ fut[ss_task] = "done")

\* The sender is parked with the first UsartLen - 1 bytes of a longer string
\* accepted, none of them put to the data register yet.
C22_Witness ==
    /\ Len(ss_string) > UsartLen - 1
    /\ wr_parked = unsafe_new(ss_task)
    /\ pc = "wfe"
    /\ ss_cur = UsartLen - 1
    /\ dr_log = <<>>
    /\ writer_buffer = Prefix(ss_string, UsartLen - 1)

\* ------------------------------------------------------------------------
\* StartSendAll
\* ------------------------------------------------------------------------

\* The item try_start_send holds in its argument.
InFlight == IF sa_pc \in {"try_start_send", "start_send"} THEN <<sa_item>> ELSE <<>>

SendAllPullStep == src_pos' # src_pos

\* C25: the items handed to the sink, then the buffered item, then the
\* item in try_start_send's hands are always exactly the items pulled from
\* the stream, in order, whatever the sink and the stream answer; the slot
\* is filled only by a poll_ready that answered Pending and that poll
\* returns Pending; an item is pulled only when the slot is empty and every
\* item pulled before has been handed to the sink; the slot is empty when
\* try_start_send is entered; and Ok is returned, with sink and stream
\* taken, only when the stream has ended and everything it yielded was sent.
C25_SendsStreamOnce ==
    /\ [](/\ sink_got = Prefix(src_items, Len(sink_got))
          /\ sa_ret # "Err" =>
                sink_got \o buffered \o InFlight = Prefix(src_items, src_pos)
          /\ InFlight # <<>> => buffered = <<>>
          /\ Len(buffered) <= 1
          /\ sa_ret = "Ok" <=> (sa_pc = "done" /\ ~sa_sink /\ ~sa_stream)
          /\ sa_ret = "Ok" =>
                /\ src_pos = Len(src_items)
                /\ sink_got = src_items
                /\ buffered = <<>>)
    /\ [][SendAllPullStep =>
            /\ buffered = <<>>
            /\ sink_got = Prefix(src_items, src_pos)
            /\ src_pos' = src_pos + 1]_vars
    /\ [][buffered' # <<>> /\ buffered = <<>> =>
            /\ sa_pc = "try_start_send"
            /\ buffered' = <<src_items[src_pos]>>
            /\ sa_ret' = "Pending"
            /\ sink_got' = sink_got]_vars
    /\ [][buffered # <<>> /\ buffered' = <<>> =>
            sa_pc' = "try_start_send" /\ sa_item' = buffered[1]]_vars

\* An item pulled after others were sent sits in the slot, the sink having
\* answered Pending, and poll has returned Pending.
C25_Witness ==
    /\ buffered # <<>>
    /\ sa_ret = "Pending"
    /\ sink_got # <<>>
    /\ src_pos = Len(sink_got) + 1
    /\ src_pos < Len(src_items)

\* ------------------------------------------------------------------------
\* TakeUntil
\* ------------------------------------------------------------------------

\* The bytes read from the stream so far.
BytesRead == Prefix(src_items, src_pos)

\* m is a suffix of s: s is something followed by m.
IsSuffix(m, s) == \E n \in 0..Len(s) : s = Prefix(s, n) \o m

\* Some delimiter is a suffix of the first k bytes the stream yields.
MatchedAt(k) ==
    \E i \in 1..Len(matches) : IsSuffix(matches[i], Prefix(src_items, k))

\* C26: cur counts the bytes read and buffer[..cur] holds them; poll goes on
\* reading only while no delimiter has ended the bytes read; Ok comes with
\* length = cur = the number of bytes consumed, b[..length] equal to them, a
\* delimiter of matches that ends them, no delimiter ending a shorter
\* prefix, and the stream handed back; BufferOverflow comes only with the
\* buffer full and no delimiter matched on the way, Finished only with the
\* stream ended, room left and no delimiter matched.
C26_TakeUntil ==
    /\ tu_cur = src_pos
    /\ tu_cur <= Len(buffer)
    /\ SubSeq(buffer, 1, tu_cur) = BytesRead
    /\ tu_pc \in {"start", "loop", "poll_next"} =>
          \A k \in 1..tu_cur : ~MatchedAt(k)
    /\ tu_pc = "match" => \A k \in 1..(tu_cur - 1) : ~MatchedAt(k)
    /\ tu_pc = "done" <=> tu_ret.tag \in {"Ok", "BufferOverflow", "Finished"}
    /\ tu_pc = "done" => ~tu_stream
    /\ tu_ret.tag = "Ok" =>
          /\ tu_ret.length = src_pos
          /\ tu_ret.length >= 1
          /\ Len(tu_ret.b) = Len(buffer)
          /\ SubSeq(tu_ret.b, 1, tu_ret.length) = BytesRead
          /\ \E i \in 1..Len(matches) : tu_ret.delimiter = matches[i]
          /\ IsSuffix(tu_ret.delimiter, BytesRead)
          /\ \A k \in 1..(tu_ret.length - 1) : ~MatchedAt(k)
    /\ tu_ret.tag = "BufferOverflow" =>
          /\ tu_cur = Len(buffer)
          /\ \A k \in 1..tu_cur : ~MatchedAt(k)
    /\ tu_ret.tag = "Finished" =>
          /\ src_pos = Len(src_items)
          /\ tu_cur < Len(buffer)
          /\ \A k \in 1..tu_cur : ~MatchedAt(k)

\* Ok at the byte that fills the buffer, on the second delimiter of two,
\* with bytes left in the stream.
C26_Witness ==
    /\ tu_ret.tag = "Ok"
    /\ tu_ret.length = Len(buffer)
    /\ tu_ret.length > Len(tu_ret.delimiter)
    /\ Len(matches) = 2
    /\ tu_ret.delimiter = matches[2]
    /\ tu_ret.delimiter # matches[1]
    /\ Len(tu_ret.delimiter) >= 1
    /\ src_pos < Len(src_items)

\* ------------------------------------------------------------------------
\* CircularBuffer: a push on a full buffer
\* ------------------------------------------------------------------------

\* The elements between head and tail, oldest first.
Held == [i \in 1..Fill |-> array[(head + i - 1) % RingLen]]

\* C23: a push whose test finds the buffer full returns false and leaves
\* the array, head, tail and the record of accepted elements as they were;
\* the buffer always holds exactly the accepted elements not yet read, in
\* arrival order; and what the reader has popped is always the first
\* accepted elements, in arrival order.
C23_FullPushDiscards ==
    /\ [][PushCheckStep /\ Fill = RingLen - 1 =>
            /\ ppc' = "idle"
            /\ array' = array
            /\ head' = head
            /\ tail' = tail
            /\ pushed' = pushed
            /\ popped' = popped]_vars
    /\ [][refused' /\ ~refused => PushCheckStep /\ Fill = RingLen - 1]_vars
    /\ [](Held = SubSeq(pushed, Len(popped) + 1, Len(pushed)))
    /\ [](popped = Prefix(pushed, Len(popped)))

\* A push has been refused on the full buffer and the reader has then read
\* the RingLen - 1 elements accepted before it, nothing else.
C23_Witness ==
    /\ refused
    /\ Quiescent
    /\ Len(pushed) = RingLen - 1
    /\ popped = pushed
    /\ \A i \in 1..(Len(pushed) - 1) : pushed[i] # pushed[i + 1]

\* ------------------------------------------------------------------------
\* Smalloc: free gives back what alloc took
\* ------------------------------------------------------------------------

\* The heap is as init() left it: same free-list head, same headers and
\* links.
AsAfterInit ==
    /\ hhead = init(hsize).head
    /\ hmem = Headers(init(hsize).mem, hsize)

\* C27: once every pointer alloc has returned has been freed, the heap is
\* as init() left it. It fails on the 130 KiB region, where init() makes
\* blocks of 65532 bytes that free never puts together again.
C27_FreeAllRestoresInit == inited /\ live = {} => AsAfterInit

\* On the regions that init() tiles with one block the heap is restored.
FreeAllRestoresOneBlock == hsize <= HEAP_SIZE => C27_FreeAllRestoresInit

\* ------------------------------------------------------------------------
\* Smalloc: what alloc leaves behind
\* ------------------------------------------------------------------------

\* The last call was an alloc that returned a pointer.
Allocated == last_op.op = "alloc" /\ last_op.ptr # Null

\* It split the block it chose: the busy block is smaller than that block.
SplitDone == Allocated /\ hmem[last_op.block].size # last_op.s

\* The address of the remainder of the split, and of the block after it.
Remainder == last_op.block + BBSize + RoundUp(last_op.request)
AfterRemainder == Remainder + BBSize + hmem[Remainder].size

\* The elements of the free list.
Listed == {FreeList[i] : i \in 1..Len(FreeList)}

\* What a split leaves: the pointer is the payload of the chosen block, the
\* front is busy with the rounded size, the remainder is free, of size
\* s - n - header, tagged n + 1 and listed, and the block after it carries
\* the remainder's size in its tag.
SplitLayout ==
    SplitDone =>
        /\ last_op.ptr = Ptr(last_op.block + BBSize)
        /\ hmem[last_op.block].size = RoundUp(last_op.request)
        /\ ~is_free(hmem[last_op.block])
        /\ Remainder \in DOMAIN hmem
        /\ hmem[Remainder].size =
              last_op.s - RoundUp(last_op.request) - BBSize
        /\ hmem[Remainder].prev_size = RoundUp(last_op.request) + 1
        /\ is_free(hmem[Remainder])
        /\ Remainder \in Listed
        /\ AfterRemainder < hsize =>
              (hmem[AfterRemainder].prev_size \div 2) * 2 =
                  hmem[Remainder].size
        /\ AfterRemainder <= hsize

\* Scenario E: the first call on the 256-byte region is alloc(8).
ScenarioE ==
    /\ hsize = TestRegion
    /\ ops = 1
    /\ Allocated
    /\ last_op.request = 8

\* The statement of C28 as written, Scenario E leaving a free block of 240
\* bytes.
C28_Original ==
    /\ SplitLayout
    /\ ScenarioE =>
          /\ hmem[Remainder].size = 240
          /\ hmem[Remainder].prev_size = 9

\* C28: a split leaves the layout above; in Scenario E the remainder has
\* 256 - 4 - 4 - 8 - 4 = 236 bytes (the list head, two headers and the
\* payload of 8 taken off) and tag 9.
C28_SplitLayout ==
    /\ SplitLayout
    /\ ScenarioE =>
          /\ SplitDone
          /\ hmem[Remainder].size = TestRegion - PSize - BBSize - 8 - BBSize
          /\ hmem[Remainder].size = 236
          /\ hmem[Remainder].prev_size = 9
          /\ Listed = {Remainder}

\* A split in the middle of the heap: the remainder has a busy block after
\* it, whose tag has been rewritten.
C28_Witness ==
    /\ SplitDone
    /\ AfterRemainder < hsize
    /\ ~is_free(hmem[AfterRemainder])
    /\ last_op.block > PSize

\* ------------------------------------------------------------------------
\* Smalloc: when alloc splits
\* ------------------------------------------------------------------------

\* What is left of the chosen block after the rounded request, and what of
\* that is payload once the remainder's header is taken off.
Left == last_op.s - RoundUp(last_op.request)
TailPayload == Left - BBSize

\* The block was handed out whole: the busy block has the size the free
\* block had, and no block starts inside it.
WholeDone ==
    /\ Allocated
    /\ hmem[last_op.block].size = last_op.s
    /\ \A a \in DOMAIN hmem :
          ~(last_op.block < a /\ a < last_op.block + BBSize + last_op.s)

\* The statement of C29 as written: a split exactly when the tail, the
\* remainder's header taken off, is at least a FreeBlock.
C29_Original ==
    Allocated /\ last_op.request <= U16_MAX - PSize =>
        /\ SplitDone <=> TailPayload >= FBSize
        /\ ~SplitDone => WholeDone

\* C29: alloc splits exactly when what is left of the block after the
\* request, header of the remainder included, is at least a FreeBlock
\* (block.size - n >= 8, that is a tail of at least one pointer); otherwise
\* the busy block keeps the size of the free block and no block is made.
\* Requests above 65532 round to 65536, never split and are left aside.
C29_SplitsWhenRecordFits ==
    Allocated /\ last_op.request <= U16_MAX - PSize =>
        /\ SplitDone <=> Left >= FBSize
        /\ SplitDone <=> TailPayload >= PSize
        /\ ~SplitDone => WholeDone
        /\ SplitDone => Remainder \in Listed /\ hmem[Remainder].size = TailPayload

\* A split that left a remainder with room for the next pointer only: what
\* was left was exactly a FreeBlock.
C29_Witness ==
    /\ SplitDone
    /\ Left = FBSize
    /\ hmem[Remainder].size = PSize

\* ------------------------------------------------------------------------
\* Smalloc: alignment and rounded sizes
\* ------------------------------------------------------------------------

\* The busy blocks of the heap.
BusyBlocks ==
    {a \in {HeapBlocks[i] : i \in 1..Len(HeapBlocks)} : ~is_free(hmem[a])}

\* C30: on a region whose size is a multiple of the pointer size (the start
\* is offset 0), every pointer alloc returns is a multiple of the pointer
\* size; the block just handed out has the request rounded up to the
\* pointer size, or the size of the whole free block when it was not split;
\* and every busy block's size is a multiple of the pointer size.
C30_AlignedAndRounded ==
    /\ hsize % PSize = 0
    /\ \A p \in live : At(p) % PSize = 0
    /\ Allocated =>
          /\ At(last_op.ptr) % PSize = 0
          /\ hmem[last_op.block].size \in
                {RoundUp(last_op.request), last_op.s}
          /\ SplitDone => hmem[last_op.block].size = RoundUp(last_op.request)
    /\ inited => \A a \in BusyBlocks : hmem[a].size % PSize = 0

\* A request that is not a multiple of the pointer size was served by a
\* split: the busy block is larger than the request and smaller than the
\* free block was.
C30_Witness ==
    /\ SplitDone
    /\ last_op.request % PSize # 0
    /\ hmem[last_op.block].size > last_op.request
    /\ hmem[last_op.block].size < last_op.s

\* ------------------------------------------------------------------------
\* Smalloc: free coalesces
\* ------------------------------------------------------------------------

\* The last call was a free of a pointer.
Freed == last_op.op = "free" /\ last_op.ptr # Null

\* The pairs of address-adjacent blocks that are both free, as the sizes
\* the two would have together.
AdjacentFree ==
    LET bs == HeapBlocks
    IN {hmem[bs[i]].size + hmem[bs[i + 1]].size + BBSize :
           i \in {j \in 1..(Len(bs) - 1) :
                     is_free(hmem[bs[j]]) /\ is_free(hmem[bs[j + 1]])}}

\* C31: after every free, two address-adjacent blocks are both free only
\* if merging them would exceed the cap of 65532 bytes, and the heap has its
\* structural invariants (the absorbed blocks are off the free list, the
\* prev-size tag of the next block is right). It fails where the merged
\* block would have exactly 65532 bytes.
C31_FreeCoalesces ==
    Freed /\ held =>
        /\ \A together \in AdjacentFree : together > MAX_ALLOC
        /\ HeapInv

\* On the regions that init() tiles with one block no merge reaches the cap:
\* after a free no two neighbours are both free.
FreeCoalescesOneBlock ==
    Freed /\ OneBlockRegion => AdjacentFree = {} /\ HeapInv

\* A free has merged the block with its neighbours on both sides.
FreeMergedBoth ==
    /\ Freed
    /\ OneBlockRegion
    /\ Cardinality(live) = 1
    /\ Len(HeapBlocks) = 2

\* ------------------------------------------------------------------------
\* Smalloc: which block alloc takes
\* ------------------------------------------------------------------------

\* The free blocks of the heap, found walking forward, that can hold size.
Fits(size) ==
    {a \in {HeapBlocks[i] : i \in 1..Len(HeapBlocks)} :
        is_free(hmem[a]) /\ hmem[a].size >= size}

\* The best of a set of blocks: the smallest, the lowest among equal sizes.
IsBest(a, fits) ==
    /\ a \in fits
    /\ \A b \in fits :
          \/ hmem[a].size < hmem[b].size
          \/ hmem[a].size = hmem[b].size /\ a <= b

\* The step is a call of alloc, made on a heap with its invariants.
AllocStep == last_op'.op = "alloc" /\ ops' = ops + 1 /\ HeapInv

\* What alloc answers to a request, given the blocks that fit it.
AllocAnswer(fits) ==
    /\ last_op'.ptr = Null <=>
          \/ last_op'.request = 0
          \/ last_op'.request > U16_MAX
          \/ fits = {}
    /\ last_op'.ptr = Null => hhead' = hhead /\ hmem' = hmem
    /\ last_op'.ptr # Null => IsBest(last_op'.block, fits)

\* C32: alloc(n) returns null exactly when n = 0, n > 65535 or no free
\* block has n rounded up; it then leaves the heap as it was; otherwise it
\* takes the smallest free block that fits, the lowest among equal sizes.
\* It fails for n in 65533..65535, which round up to 65536.
C32_NullOrBestFit ==
    [][AllocStep => AllocAnswer(Fits(RoundUp(last_op'.request)))]_vars

\* The same for the requests whose rounded size fits 16 bits.
AllocBestFitBelowWrap ==
    [][AllocStep /\ RoundUp(last_op'.request) <= U16_MAX =>
          AllocAnswer(Fits(RoundUp(last_op'.request)))]_vars

\* alloc passed over a larger free block at a lower address; and alloc
\* returned null to a request that no free block could hold.
BestFitChosen ==
    /\ Allocated
    /\ held
    /\ \E a \in Listed : a < last_op.block /\ hmem[a].size > last_op.s
NullForNoFit ==
    /\ last_op.op = "alloc"
    /\ last_op.ptr = Null
    /\ last_op.request \in 1..U16_MAX - PSize
    /\ held

\* ------------------------------------------------------------------------
\* linkmem: reallocate
\* ------------------------------------------------------------------------

Min(a, b) == IF a < b THEN a ELSE b

\* The step is a call of __rust_reallocate.
ReallocStep == last_op'.op = "realloc" /\ ops' = ops + 1

\* What the claim says of the call: the bytes copied are the lesser of the
\* two sizes and stay inside the new payload, the old pointer is freed and
\* the new one returned; on a failed allocation nothing changes.
ReallocAnswer ==
    /\ last_op'.ptr # Null =>
          /\ last_copy'.to = last_op'.ptr
          /\ last_copy'.len = Min(last_copy'.len, last_op'.request)
          /\ last_copy'.len <= last_copy'.room
          /\ last_copy'.over = {}
          /\ last_copy'.from \in live
          /\ live' = (live \ {last_copy'.from}) \cup {last_op'.ptr}
    /\ last_op'.ptr = Null =>
          /\ hhead' = hhead
          /\ hmem' = hmem
          /\ live' = live

\* C33: realloc(p, old, new) allocates a block, copies min(old, new) bytes
\* into it and never past its payload, frees p and returns the new pointer;
\* when the allocation fails it returns null with p still allocated and
\* the heap unchanged. It fails when new < old: old bytes are copied.
C33_Realloc == [][ReallocStep => ReallocAnswer]_vars

\* The call does not shrink the block, and its rounded size fits 16 bits.
ReallocKeeps ==
    /\ last_op'.ptr # Null => last_copy'.len <= last_op'.request
    /\ RoundUp(last_op'.request) <= U16_MAX

\* For such calls the statement holds.
ReallocGrowing == [][ReallocStep /\ ReallocKeeps => ReallocAnswer]_vars

\* A reallocate to a smaller size wrote on the header of the next block.
ReallocOverrun ==
    /\ last_op.op = "realloc"
    /\ last_copy.len > last_copy.room
    /\ last_copy.over # {}
\* A reallocate to a larger size moved the block; one failed.
ReallocMoved ==
    /\ last_op.op = "realloc"
    /\ last_op.ptr # Null
    /\ last_copy.len < last_op.request
ReallocFailed ==
    /\ last_op.op = "realloc"
    /\ last_op.ptr = Null
    /\ live # {}

\* ------------------------------------------------------------------------
\* Smalloc: what init leaves
\* ------------------------------------------------------------------------

\* init() has run and no call has followed.
JustInited == inited /\ ops = 0

\* The tiling of init: the head in the first word points at the first
\* block; the blocks are free, of at most MAX_ALLOC bytes, and cover the
\* region exactly; the first tag is 1 and each later tag is the size of the
\* block before with the free bit; the free list holds every block.
InitTiling ==
    LET bs == HeapBlocks
    IN /\ hhead = Ptr(PSize)
       /\ WalkReachesEnd
       /\ \A i \in 1..Len(bs) :
             /\ hmem[bs[i]].size <= MAX_ALLOC
             /\ hmem[bs[i]].prev_size =
                   IF i = 1 THEN 1 ELSE hmem[bs[i - 1]].size + 1
       /\ Listed = {bs[i] : i \in 1..Len(bs)}
       /\ PrevTagsMatch
       /\ FreeBitIffListed

\* C34: init leaves the tiling above and, for every region size, a free
\* list in ascending order of size. The order fails on the 130 KiB region,
\* whose blocks of 65532, 65532 and 2040 bytes are chained by address.
C34_InitTilesAndSorts == JustInited => InitTiling /\ FreeListSorted

\* The tiling alone holds on every region, and the order on the regions of
\* one block.
InitTiles == JustInited => InitTiling /\ (OneBlockRegion => FreeListSorted)

\* init has tiled a region with three blocks, the last one smaller.
InitTiledThree ==
    /\ JustInited
    /\ Len(HeapBlocks) = 3
    /\ hmem[HeapBlocks[3]].size < hmem[HeapBlocks[2]].size
    /\ FreeList = HeapBlocks

\* ------------------------------------------------------------------------
\* Reactor: the wake-up and the sleep
\* ------------------------------------------------------------------------

\* The run loop has selected task t.
SelectedTask(t) == pc = "clear" /\ task_id = t

\* A bit above t is set in ready_mask.
HigherReady(t) == \E u \in ready_mask : u > t

\* The statement of C35 as written: every bit set in ready_mask is
\* selected in the end.
C35_Original == \A t \in TaskIds : (t \in ready_mask) ~> SelectedTask(t)

\* C35: under `loop { run(); wait_for_event }` a set_ready is never
\* swallowed by the sleep: once a bit is set the run loop selects a task,
\* also when the bit was set after run() read a zero mask and before the
\* wait-for-event; and each bit set is selected in the end unless a higher
\* bit is set, which goes first.
C35_WakeNotSwallowed ==
    /\ (ready_mask # {}) ~> (\E t \in TaskIds : SelectedTask(t))
    /\ \A t \in TaskIds : (t \in ready_mask) ~> (SelectedTask(t) \/ HigherReady(t))

\* A handler set a bit after run() had read a zero mask and before the
\* wait-for-event: the event is latched.
C35_Witness ==
    /\ pc = "wfe"
    /\ mask = {}
    /\ ready_mask # {}
    /\ event

\* ------------------------------------------------------------------------
\* Reactor: one run with nothing set ready
\* ------------------------------------------------------------------------

\* run() returns: select_next_task gave None.
RunReturns == pc = "select" /\ pc' = "wfe"

\* run() selects the next task, after having selected one before.
NextSelection == pc = "select" /\ pc' = "clear" /\ current_task_mask # {}

\* C36: run() returns only on reading ready_mask == 0. With every future
\* returning Pending and nothing set ready during the run, each selection
\* is below the one before; a bit leaves ready_mask only when its task is
\* selected, so each task ready at the start is selected once; a selected
\* task that is registered is polled; and run() returns.
C36_RunPollsOnceDescending ==
    /\ [][RunReturns => ready_mask = {}]_vars
    /\ [][NextSelection => \A u \in current_task_mask : task_id' < u]_vars
    /\ [][ready_mask' # ready_mask =>
            /\ pc = "clear"
            /\ task_id \in ready_mask
            /\ ready_mask' = ready_mask \ {task_id}]_vars
    /\ [][pc = "dispatch" /\ tasks[task_id] # None => pc' = "poll"]_vars
    /\ [][pc = "poll" => pc' = "select" /\ tasks' = tasks]_vars
    /\ <>(pc = "wfe" /\ ready_mask = {})

\* Scenario A on the ids at hand: tasks 0 and 2 were registered and ready,
\* 2 was polled, then 0, and run() has returned.
C36_Witness ==
    /\ pc = "wfe"
    /\ ready_mask = {}
    /\ {t \in TaskIds : tasks[t] # None} = {0, 2}
    /\ current_task_mask = {0}
    /\ task_id = 0
    /\ ~event

\* ------------------------------------------------------------------------
\* Scheduler: what schedule() executes
\* ------------------------------------------------------------------------

\* The tasks called so far, and those added and not yet called.
Executed == {executed[i] : i \in 1..Len(executed)}
Queued == Added \ Executed

\* The place of a task in the order of the add_task calls.
AddedAt(t) == CHOOSE i \in 1..Len(added) : added[i] = t

\* schedule() takes a task from the list and calls it.
SchedPopStep == sch_pc = "loop" /\ sch_pc' = "call"

\* schedule() returns.
SchedReturnsStep == sch_pc = "loop" /\ sch_pc' = "idle"

\* What the claim says of a task taken: it was added and not called
\* before, and of the tasks waiting none has a lower priority value, nor
\* the same and an earlier add_task.
TakenInOrder ==
    LET t == sch_cur'[1]
    IN /\ t \in Queued
       /\ \A u \in Queued :
             \/ task_priority[t] < task_priority[u]
             \/ task_priority[t] = task_priority[u] /\ AddedAt(t) <= AddedAt(u)

\* C37: schedule() calls every task given to add_task exactly once, always
\* the waiting task of the lowest priority value and, among equals, the
\* one added first, whatever the order of the add_task calls; a task added
\* by a running task is called before schedule() returns; a schedule()
\* with nothing added since the last one calls nothing. It fails when a
\* task is added with a priority value below that of the head of the list.
C37_ScheduleRunsAll ==
    /\ [][SchedPopStep => TakenInOrder]_vars
    /\ [][SchedReturnsStep => Queued = {}]_vars

\* The same while no add_task has put a task before the head of a list.
ScheduleRunsAllBehindHead ==
    /\ [][SchedPopStep /\ ~dropped => TakenInOrder]_vars
    /\ [][SchedReturnsStep /\ ~dropped => Queued = {}]_vars

\* schedule() has returned having called three tasks in an order that is
\* not that of the add_task calls, one of them added by a running task.
ScheduledByPriority ==
    /\ sch_pc = "idle"
    /\ ~dropped
    /\ Len(executed) = MaxTasks
    /\ executed # added
\* A second schedule() has returned having called nothing.
ScheduledTwice ==
    /\ sch_pc = "idle"
    /\ sch_calls = 2
    /\ ~dropped
    /\ Len(executed) = MaxTasks
\* add_task has lost the tasks of the list.
TasksLost ==
    /\ sch_pc = "idle"
    /\ sch_calls > 0
    /\ dropped
    /\ Queued # {}

\* ------------------------------------------------------------------------
\* Smalloc: the payloads handed out
\* ------------------------------------------------------------------------

\* The bytes of the payload of the block at pointer p: from Lo to Hi, Hi
\* excluded.
Lo(p) == At(p)
Hi(p) == At(p) + hmem[At(p) - BBSize].size

\* The free blocks: those of the free list and those with the free bit.
FreeBlocks ==
    Listed \cup {a \in DOMAIN hmem : is_free(hmem[a])}

\* The bytes from lo to hi and those from a to b have none in common.
Apart(lo, hi, a, b) == hi <= a \/ b <= lo

\* C38: the payloads of the blocks allocated and not yet freed are blocks
\* of the heap, busy and off the free list; they lie inside the region
\* after the list-head word; no two share a byte; none shares a byte with
\* a block header or with a free block.
C38_LivePayloadsApart ==
    \A p \in live :
       /\ At(p) - BBSize \in DOMAIN hmem
       /\ At(p) - BBSize \notin FreeBlocks
       /\ PSize + BBSize <= Lo(p)
       /\ Hi(p) <= hsize
       /\ \A q \in live \ {p} : Apart(Lo(p), Hi(p), Lo(q), Hi(q))
       /\ \A a \in DOMAIN hmem : Apart(Lo(p), Hi(p), a, a + BBSize)
       /\ \A a \in FreeBlocks :
             Apart(Lo(p), Hi(p), a, a + BBSize + hmem[a].size)

\* Two blocks are allocated with a free block between them, left by the
\* free of a third.
C38_Witness ==
    /\ Cardinality(live) = 2
    /\ Freed
    /\ \E p, q \in live : \E a \in FreeBlocks : Hi(p) <= a /\ a < Lo(q)

\* ------------------------------------------------------------------------
\* Smalloc: sizes in 16 bits
\* ------------------------------------------------------------------------

\* The block alloc has just handed out is busy, starts one header before
\* the pointer and records a size that holds the request.
HoldsRequest ==
    /\ last_op.ptr = Ptr(last_op.block + BBSize)
    /\ ~is_free(hmem[last_op.block])
    /\ hmem[last_op.block].size >= last_op.request
    /\ hmem[last_op.block].size \in {RoundUp(last_op.request), last_op.s}

\* C39: for every request n in 1..65535 a non-null result of alloc(n) is
\* the payload of a busy block whose recorded size is at least n. It fails
\* for n in 65533..65535: n rounds up to 65536, which is 0 in 16 bits.
C39_BlockHoldsRequest ==
    Allocated /\ last_op.request \in 1..U16_MAX => HoldsRequest

\* The same for the requests that round up to at most 65532.
BlockHoldsRequestBelowWrap ==
    Allocated /\ last_op.request \in 1..MAX_ALLOC => HoldsRequest

\* alloc(65532) was served with a block of 65532 bytes; alloc(65535) with
\* a smaller one.
MaxAllocServed ==
    /\ Allocated
    /\ last_op.request = MAX_ALLOC
    /\ hmem[last_op.block].size = MAX_ALLOC
WrappedRequestServed ==
    /\ Allocated
    /\ last_op.request = U16_MAX
    /\ hmem[last_op.block].size < last_op.request

\* ------------------------------------------------------------------------
\* Reactor: a bit set between the read and the clear
\* ------------------------------------------------------------------------

\* The bits set in ready_mask since select_next_task read it that are
\* above the task it selected.
LateHigher == {h \in ready_mask \ mask : h > task_id}

\* A bit above the task polled last is set and has not been selected
\* since it was set.
HigherWaiting == {h \in ready_mask \cap oredSince : h > task_id}

KeptByClear ==
    pc = "clear" => (ready_mask \ {task_id}) \subseteq ready_mask'

KeptWhilePolled ==
    pc \in {"clear", "publish", "dispatch", "poll"} =>
        /\ task_id' = task_id
        /\ \A h \in HigherWaiting : h \in ready_mask'

PolledOnce ==
    pc = "poll" /\ pc' # pc => pc' = "select"

HigherSelectedNext ==
    pc = "select" /\ pc' # pc /\ HigherWaiting # {} =>
        /\ pc' = "clear"
        /\ task_id' \in HigherWaiting
        /\ \A h \in HigherWaiting : h <= task_id'

\* C40: a bit that a handler sets above the selected task, after the read
\* of select_next_task and before the fetch_and, is not lost: the fetch_and
\* takes away the selected bit only; the selected task is polled once and
\* the loop goes back to select; and the selection that follows takes that
\* higher task, or one above it that was set as well.
C40_LateHigherBitKept ==
    [][KeptByClear /\ KeptWhilePolled /\ PolledOnce /\ HigherSelectedNext]_vars

\* A handler has set a higher bit between the read and the clear.
C40_Witness ==
    /\ pc = "clear"
    /\ mask # {}
    /\ LateHigher # {}

\* The task selected before has been polled and the loop is about to select
\* with that higher bit still set.
LateHigherNext ==
    /\ pc = "select"
    /\ HigherWaiting # {}
    /\ current_task_mask = {task_id}

====
